---- MODULE Spec2Model ----
(***************************************************************************)
(* A model of the RPS arena game: the Game phase machine, the Army and     *)
(* Soldier aggregates, collision-driven conversion with its deferred       *)
(* completion callbacks, the timed power-up effects and the handlers of    *)
(* the network messages that reach one peer.                               *)
(*                                                                         *)
(* Positions are real numbers in the program.  The battle model abstracts  *)
(* them to the relation that the code derives from them in each tick: the  *)
(* set of soldier pairs closer than 2 x SOLDIER_COLLISION_RADIUS and the   *)
(* armies that touch each power-up.  These are inputs of the tick.         *)
(***************************************************************************)
EXTENDS Integers, Sequences, FiniteSets, TLC

(* ------------------------------ bounds --------------------------------- *)
\* soldiers that createSoldiers builds per army (the program builds
\* GAME_CONFIG.SOLDIERS_PER_ARMY of them and uses the same number as
\* Army.maxSoldiers): in the battle specification, in the power-up
\* specification, and in the specification of a peer of a party
ArmySize == 2
PowerArmySize == 1
PeerArmySize == 1
\* events that one tick may see: soldier pairs in contact (besides a soldier
\* that is listed in two rosters, which is always in contact with itself),
\* a power-up spawned, power-ups touched; in the battle specification, in the
\* power-up specification, in the peer specification
MaxEvents == 2
PowerEvents == 1
PeerEvents == 1
\* conversions (convertSoldier calls) in one run of the battle
\* specification, of the power-up specification, of the peer specification
MaxConversions == 3
PowerConversions == 3
PeerConversions == 3
\* power-ups spawned in one run of the power-up specification
MaxSpawns == 2

(* --------------------------- program constants ------------------------- *)
SOLDIERS_PER_ARMY == 5
SPEED_BOOST_DURATION == 5
SPEED_BOOST_MULTIPLIER_X10 == 16
INVINCIBILITY_DURATION == 4
MAGNET_DURATION == 4
REVERSE_DURATION == 2
PLACEMENT_TIME == 10
SOLDIERS_TO_RESTORE == 2
\* speedMultiplier is kept in tenths: 10 is the multiplier 1
NORMAL_SPEED_X10 == 10

\* SOLDIER_TYPES, in the order of Object.values(SOLDIER_TYPES), which is the
\* insertion (and iteration) order of Game.armies
SOLDIER_TYPES == <<"rock", "paper", "scissors">>
Types == {"rock", "paper", "scissors"}

\* GAME_STATES (LOBBY is declared by the program and never assigned)
GAME_STATES == {"menu", "lobby", "placement", "playing", "ended"}

POWERUP_TYPES ==
  {"speed_boost", "invincibility", "reinforcement", "magnet_aura",
   "split_formation", "clone_leader", "reverse_control"}

\* null for object references (Army.leader, a missing army)
Null == 0

VARIABLES
  state,            \* Game.state
  localPlayerType,  \* Game.localPlayerType ("none" for null)
  isSoloTest,       \* Game.isSoloTest
  armies,           \* Game.armies: type -> Army; the empty function when cleared
  sold,             \* the Soldier objects of the current match, by object number
  powerUpManager,   \* Game.powerUpManager: [exists, isSpawning, powerUps]
  conversions,      \* pending playConversionEffect callbacks, oldest first
  timers,           \* pending setTimeout callbacks of the Army power-up methods
  isHost,           \* NetworkManager.isHost
  partyId,          \* NetworkManager.partyId ("none" for null)
  netPlayerType,    \* NetworkManager.localPlayerType ("none" for null)
  screens,          \* the UI screens with buttons that are not hidden
  shown,            \* what UIManager.showGameOver displayed last
  placementTimer,   \* Game.placementTimer
  clock,            \* Date.now(), as far as soldier ids depend on it
  perArmy,          \* GAME_CONFIG.SOLDIERS_PER_ARMY as scaled for this run
  aiUpdateTimers,   \* Game.aiUpdateTimers: type -> Date.now() of the last wander pick
  aiInput,          \* the input that updateHost got from getAIInput, by type
  draggedSoldier,   \* Game.draggedSoldier: an object number, Null or Discarded
  mirror,           \* the Game of the other peer: [state, armies, sold, conversions]
  blocked,          \* history: the last Playing tick met an invincible army
                    \* in Game.handleCollision, which returned at once
  budget,           \* what is left of the bounds of this run
  players,          \* NetworkManager.players: Map entries in insertion order
  remoteInputs,     \* NetworkManager.remoteInputs: type -> <<x, z>>
  syncInterval,     \* the setInterval of startHostSync is running
  sent,             \* history: the messages the last step broadcast
  remote,           \* the NetworkManager of another peer
  wire              \* messages on their way: [toLocal, toRemote]

vars == <<state, localPlayerType, isSoloTest, armies, sold, powerUpManager,
          conversions, timers, isHost, partyId, netPlayerType, screens,
          shown, placementTimer, clock, perArmy, aiUpdateTimers, aiInput, draggedSoldier, mirror, blocked, budget, players,
          remoteInputs, syncInterval, sent, remote, wire>>

\* NetworkManager.partyId is set: this peer is in a party
inParty == partyId # "none"

(* ------------------------------ helpers -------------------------------- *)
Range(s) == {s[i] : i \in DOMAIN s}

Min(a, b) == IF a <= b THEN a ELSE b

\* index of the first occurrence of x in s, 0 when absent (Array.indexOf)
IndexOf(s, x) ==
  IF \E i \in DOMAIN s : s[i] = x
  THEN CHOOSE i \in DOMAIN s : s[i] = x /\ \A j \in 1..(i - 1) : s[j] # x
  ELSE 0

\* s without its element at index i (Array.splice(i, 1))
RemoveAt(s, i) == [k \in 1..(Len(s) - 1) |-> IF k < i THEN s[k] ELSE s[k + 1]]

NoArmies == << >>

NoPowerUpManager == [exists |-> FALSE, isSpawning |-> FALSE, powerUps |-> << >>]

\* the Game of the other peer after its construction
NoMirror ==
  [state |-> "menu", armies |-> NoArmies, sold |-> << >>, conversions |-> << >>]

\* IdentityService.currentUser.id of this peer, of the other peer that is
\* modelled, and of any further participant
LocalId == "me"
RemoteId == "peer"
GuestId == "guest"

\* strings are sequences of characters; String(s) is the string itself, as
\* the value of a field
RECURSIVE String(_)
String(s) == IF s = << >> THEN "" ELSE s[1] \o String(Tail(s))

\* the digits of Number.prototype.toString(36), and their upper case
Digits36 ==
  <<"0", "1", "2", "3", "4", "5", "6", "7", "8", "9", "a", "b", "c", "d", "e",
    "f", "g", "h", "i", "j", "k", "l", "m", "n", "o", "p", "q", "r", "s", "t",
    "u", "v", "w", "x", "y", "z">>
Upper36 ==
  <<"0", "1", "2", "3", "4", "5", "6", "7", "8", "9", "A", "B", "C", "D", "E",
    "F", "G", "H", "I", "J", "K", "L", "M", "N", "O", "P", "Q", "R", "S", "T",
    "U", "V", "W", "X", "Y", "Z">>

\* String.prototype.toUpperCase()
toUpperCase(s) ==
  [i \in DOMAIN s |->
     IF \E k \in DOMAIN Digits36 : Digits36[k] = s[i]
     THEN Upper36[CHOOSE k \in DOMAIN Digits36 : Digits36[k] = s[i]]
     ELSE s[i]]

\* Math.random().toString(36): r is the value of Math.random(), a number in
\* [0, 1), as the digits of its fraction in base 36 (none for 0; the last
\* one is not 0)
toString36(r) ==
  IF r = << >> THEN <<"0">>
  ELSE <<"0", ".">> \o [i \in DOMAIN r |-> Digits36[r[i] + 1]]

\* String.prototype.substring(start, end), 0 <= start <= end
substring(s, start, end) ==
  SubSeq(s, Min(start, Len(s)) + 1, Min(end, Len(s)))

\* NetworkManager.generatePartyId() when Math.random() gives r
generatePartyId(r) == toUpperCase(substring(toString36(r), 2, 8))

\* generatePartyId of the PeerJS NetworkManager: six characters, each drawn
\* from 'ABCDEFGHJKLMNPQRSTUVWXYZ23456789'
Unambiguous ==
  {"A", "B", "C", "D", "E", "F", "G", "H", "J", "K", "L", "M", "N", "P", "Q",
   "R", "S", "T", "U", "V", "W", "X", "Y", "Z", "2", "3", "4", "5", "6", "7",
   "8", "9"}

\* the values of Math.random() in the createParty() of this peer and of the
\* other peer in the specifications that follow one party, and the party id
\* of a party of further participants as an invite names it
LocalDraw == <<22, 7, 12, 30, 4, 19, 9>>
RemoteDraw == <<13, 33, 2, 27, 16, 8>>
OtherCode == <<"k", "7", "q", "m", "2", "p">>

\* the ids of these parties
LocalParty == String(generatePartyId(LocalDraw))
RemoteParty == String(generatePartyId(RemoteDraw))
OtherParty == String(toUpperCase(OtherCode))

\* the transport delivers in order; it holds at most MaxInFlight messages
\* for a peer
MaxInFlight == 2

NoWire == [toLocal |-> << >>, toRemote |-> << >>]

\* new NetworkManager(app) on the other peer
NoRemote ==
  [isHost |-> FALSE, partyId |-> "none", localPlayerType |-> "none",
   players |-> << >>]

\* NetworkManager.broadcast(data) on the peer with this id
broadcast(id, data) ==
  [f \in DOMAIN data \cup {"fromId"} |-> IF f = "fromId" THEN id ELSE data[f]]

\* the message that data is the next one from the other peer, or one from a
\* further participant of the party: what is left on the way to this peer
Received(data) ==
  IF wire.toLocal # << >> /\ Head(wire.toLocal) = data
  THEN Tail(wire.toLocal) ELSE wire.toLocal

\* RealtimeService.broadcast(data) on the channel of a party: the message is
\* queued for a peer that is subscribed to that channel
relay(channel, subscription, queue, msgs) ==
  IF channel # "none" /\ subscription = channel THEN queue \o msgs ELSE queue

\* what this step hands to NetworkManager.broadcast on the channel of a
\* party; rest is what stays on the way to this peer
Send(channel, out, rest) ==
  \E msgs \in {[i \in DOMAIN out |-> broadcast(LocalId, out[i])]} :
    /\ sent' = msgs
    /\ wire' = [toLocal |-> rest,
                toRemote |-> relay(channel, remote.partyId, wire.toRemote, msgs)]
    /\ Len(wire'.toRemote) <= MaxInFlight

(* ------------------------------ Soldier -------------------------------- *)
\* new Soldier(scene, type, isLeader, id)
NewSoldier(type, isLeader, id) ==
  [id |-> id, type |-> type, isLeader |-> isLeader, isConverting |-> FALSE,
   isDragging |-> FALSE, x |-> 0, z |-> 0]

\* changeType that also rewrites the id after the new type
changeType_Renames(s, o, newType) ==
  [s EXCEPT ![o].type = newType, ![o].id = <<newType, @[2], @[3], @[4]>>]

\* Soldier.changeType(newType): the type changes; id and isLeader stay
changeType(s, o, newType) == [s EXCEPT ![o].type = newType]

(* -------------------------------- Army --------------------------------- *)
\* ids given by Army.createSoldiers: `${type}_LEADER`, `${type}_${n}`
LeaderId(type) == <<type, "LEADER", 0, 0>>
SpawnId(type, n) == <<type, "S", n, 0>>
\* id given by Army.reinforceSoldiers: `${type}_R_${Date.now()}_${i}`
ReinforceId(type, now, i) == <<type, "R", now, i>>

\* the Soldier objects that createSoldiers of one army appends to the
\* object table: the leader first, then the regular soldiers
createSoldiers(type, n) ==
  [k \in 1..n |-> IF k = 1 THEN NewSoldier(type, TRUE, LeaderId(type))
                  ELSE NewSoldier(type, FALSE, SpawnId(type, k - 2))]

\* new Army(scene, type, isLocal, arena), whose soldiers are the objects
\* first .. first + n - 1
NewArmy(type, first, n) ==
  [type |-> type,
   soldiers |-> [k \in 1..n |-> first + k - 1],
   leader |-> IF n > 0 THEN first ELSE Null,
   isInvincible |-> FALSE,
   speedMultiplier |-> NORMAL_SPEED_X10,
   isReversed |-> FALSE,
   magnetActive |-> FALSE,
   maxSoldiers |-> n,
   aiWanderDir |-> [x |-> 0, z |-> 0]]

\* an addSoldier that loses the soldier
addSoldier_Drops(army, o) == army

\* Army.addSoldier(soldier)
addSoldier(army, o) == [army EXCEPT !.soldiers = Append(@, o)]

\* Army.promoteNewLeader(): w is [army, sold]
promoteNewLeader(w) ==
  IF Len(w.army.soldiers) = 0
  THEN [w EXCEPT !.army.leader = Null]
  ELSE [army |-> [w.army EXCEPT !.leader = w.army.soldiers[1]],
        sold |-> [w.sold EXCEPT ![w.army.soldiers[1]].isLeader = TRUE]]

\* Army.removeSoldier(soldier): w is [army, sold]
removeSoldier(w, o) ==
  LET index == IndexOf(w.army.soldiers, o)
      spliced == [w EXCEPT !.army.soldiers = RemoveAt(@, index)]
  IN IF index = 0 THEN w
     ELSE IF w.sold[o].isLeader /\ Len(spliced.army.soldiers) > 0
          THEN promoteNewLeader(spliced)
     ELSE IF w.sold[o].isLeader
          THEN [spliced EXCEPT !.army.leader = Null]
     ELSE spliced

\* Army.reinforceSoldiers(count): w is [army, sold]; now is Date.now()
RECURSIVE reinforceLoop(_, _, _, _)
reinforceLoop(w, i, toAdd, now) ==
  IF i >= toAdd THEN w
  ELSE reinforceLoop(
         [army |-> [w.army EXCEPT !.soldiers = Append(@, Len(w.sold) + 1)],
          sold |-> Append(w.sold,
                          NewSoldier(w.army.type, FALSE,
                                     ReinforceId(w.army.type, now, i)))],
         i + 1, toAdd, now)

\* reinforceSoldiers without the cap at maxSoldiers
reinforceSoldiers_Uncapped(w, count, now) == reinforceLoop(w, 0, count, now)

reinforceSoldiers(w, count, now) ==
  LET currentCount == Len(w.army.soldiers)
      toAdd == Min(count, w.army.maxSoldiers - currentCount)
  IN reinforceLoop(w, 0, toAdd, now)


\* the setTimeout callback scheduled by activateSpeedBoost, activateInvincibility,
\* activateReverseControl and activateMagnet, applied to the army it closes over
expire(army, kind) ==
  CASE kind = "speed_boost" -> [army EXCEPT !.speedMultiplier = NORMAL_SPEED_X10]
    [] kind = "invincibility" -> [army EXCEPT !.isInvincible = FALSE]
    [] kind = "reverse_control" -> [army EXCEPT !.isReversed = FALSE]
    [] kind = "magnet_aura" -> [army EXCEPT !.magnetActive = FALSE]

Timer(type, kind, duration) ==
  [army |-> type, kind |-> kind, remaining |-> duration, stale |-> FALSE]

\* Army.activateSpeedBoost(duration, multiplier): w is [army, timers]
activateSpeedBoost(w) ==
  [army |-> [w.army EXCEPT !.speedMultiplier = SPEED_BOOST_MULTIPLIER_X10],
   timers |-> w.timers \cup {Timer(w.army.type, "speed_boost", SPEED_BOOST_DURATION)}]

\* Army.activateInvincibility(duration)
activateInvincibility(w) ==
  [army |-> [w.army EXCEPT !.isInvincible = TRUE],
   timers |-> w.timers \cup {Timer(w.army.type, "invincibility", INVINCIBILITY_DURATION)}]

\* Army.activateReverseControl(duration)
activateReverseControl(w) ==
  [army |-> [w.army EXCEPT !.isReversed = TRUE],
   timers |-> w.timers \cup {Timer(w.army.type, "reverse_control", REVERSE_DURATION)}]

\* Army.activateMagnet(duration)
activateMagnet(w) ==
  [army |-> [w.army EXCEPT !.magnetActive = TRUE],
   timers |-> w.timers \cup {Timer(w.army.type, "magnet_aura", MAGNET_DURATION)}]

(* -------------------------------- Game --------------------------------- *)
\* getRPSWinner that lets its first argument win every duel
getRPSWinner_FirstWins(type1, type2) ==
  IF type1 = type2 THEN "none" ELSE type1

\* Game.getRPSWinner(type1, type2); "none" is null
getRPSWinner(type1, type2) ==
  IF type1 = type2 THEN "none"
  ELSE IF type1 = "rock" /\ type2 = "scissors" THEN type1
  ELSE IF type2 = "rock" /\ type1 = "scissors" THEN type2
  ELSE IF type1 = "scissors" /\ type2 = "paper" THEN type1
  ELSE IF type2 = "scissors" /\ type1 = "paper" THEN type2
  ELSE IF type1 = "paper" /\ type2 = "rock" THEN type1
  ELSE IF type2 = "paper" /\ type1 = "rock" THEN type2
  ELSE "none"

\* Game.convertSoldier(soldier, fromArmy, toArmy), up to the start of the
\* animation: c is [sold, conversions]; the callback joins the pending ones
convertSoldier(c, o, fromType, toType) ==
  [c EXCEPT !.sold[o].isConverting = TRUE,
            !.conversions = Append(@, [soldier |-> o, from |-> fromType,
                                       to |-> toType, stale |-> FALSE])]

\* handleCollision without its invincibility check
handleCollision_Unshielded(c, o1, o2, army1, army2) ==
  LET winner == getRPSWinner(army1.type, army2.type)
  IN IF winner = army1.type THEN convertSoldier(c, o2, army2.type, army1.type)
     ELSE IF winner = army2.type
          THEN convertSoldier(c, o1, army1.type, army2.type)
     ELSE c

\* Game.handleCollision(soldier1, soldier2, army1, army2): c is
\* [sold, conversions, blocked]
handleCollision(c, o1, o2, army1, army2) ==
  IF army1.isInvincible \/ army2.isInvincible THEN [c EXCEPT !.blocked = TRUE]
  ELSE LET winner == getRPSWinner(army1.type, army2.type)
       IN IF winner = army1.type THEN convertSoldier(c, o2, army2.type, army1.type)
          ELSE IF winner = army2.type
               THEN convertSoldier(c, o1, army1.type, army2.type)
          ELSE c

\* distance < 2 * SOLDIER_COLLISION_RADIUS: near is the set of pairs of distinct
\* soldiers in contact; one soldier listed twice is at distance 0 from itself
InContact(near, o1, o2) == o1 = o2 \/ {o1, o2} \in near

\* the loop over soldiers2 of Game.checkArmyCollisions for one soldier1
RECURSIVE collideInner(_, _, _, _, _, _, _)
collideInner(c, near, o1, soldiers2, j, army1, army2) ==
  IF j > Len(soldiers2) THEN c
  ELSE LET o2 == soldiers2[j]
           d == IF c.sold[o2].isConverting THEN c
                ELSE IF InContact(near, o1, o2)
                     THEN handleCollision(c, o1, o2, army1, army2)
                ELSE c
       IN collideInner(d, near, o1, soldiers2, j + 1, army1, army2)

\* the loop over soldiers1 of Game.checkArmyCollisions for one pair of armies
RECURSIVE collideOuter(_, _, _, _, _, _, _)
collideOuter(c, near, soldiers1, i, soldiers2, army1, army2) ==
  IF i > Len(soldiers1) THEN c
  ELSE LET d == IF c.sold[soldiers1[i]].isConverting THEN c
                ELSE collideInner(c, near, soldiers1[i], soldiers2, 1,
                                  army1, army2)
       IN collideOuter(d, near, soldiers1, i + 1, soldiers2, army1, army2)

\* the pairs (i, j), i < j, of Game.checkArmyCollisions in loop order
ArmyPairs == << <<1, 2>>, <<1, 3>>, <<2, 3>> >>

\* Game.checkArmyCollisions(): arm is Game.armies, c is [sold, conversions]
RECURSIVE collidePairs(_, _, _, _)
collidePairs(c, near, arm, k) ==
  IF k > Len(ArmyPairs) THEN c
  ELSE LET army1 == arm[SOLDIER_TYPES[ArmyPairs[k][1]]]
           army2 == arm[SOLDIER_TYPES[ArmyPairs[k][2]]]
       IN collidePairs(collideOuter(c, near, army1.soldiers, 1, army2.soldiers,
                                    army1, army2),
                       near, arm, k + 1)

checkArmyCollisions(c, near, arm) ==
  IF DOMAIN arm = {} THEN c ELSE collidePairs(c, near, arm, 1)

\* the callback that Game.convertSoldier passes to playConversionEffect, run
\* for the pending conversion cv on the armies and soldiers of the match it
\* was scheduled in: w is [armies, sold]
completeConversion(w, cv) ==
  LET r == removeSoldier([army |-> w.armies[cv.from], sold |-> w.sold], cv.soldier)
      arm1 == [w.armies EXCEPT ![cv.from] = r.army]
      arm2 == [arm1 EXCEPT ![cv.to] = addSoldier(arm1[cv.to], cv.soldier)]
      sold1 == changeType(r.sold, cv.soldier, arm2[cv.to].type)
  IN [armies |-> arm2,
      sold |-> [sold1 EXCEPT ![cv.soldier].isConverting = FALSE]]

\* Game.checkWinCondition(): the types of the armies with soldiers
activeArmies(arm) == {t \in DOMAIN arm : Len(arm[t].soldiers) > 0}

(* --------------------------- PowerUpManager ---------------------------- *)
\* the types other than t in the order of Game.armies.keys()
enemyTypes(arm, t) == SelectSeq(SOLDIER_TYPES, LAMBDA u : u \in DOMAIN arm /\ u # t)

\* PowerUpManager.applyPowerUp(type, army): p is [armies, sold, timers, aborted];
\* rev is the index that applyReverseToRandomEnemy draws; aborted is set where
\* createCloneLeader dereferences a null leader and the exception ends the tick
applyPowerUp(p, kind, t, rev, now) ==
  LET army == p.armies[t]
      timed(w) == [p EXCEPT !.armies[t] = w.army, !.timers = w.timers]
      aw == [army |-> army, timers |-> p.timers]
  IN CASE kind = "speed_boost" -> timed(activateSpeedBoost(aw))
       [] kind = "invincibility" -> timed(activateInvincibility(aw))
       [] kind = "magnet_aura" -> timed(activateMagnet(aw))
       [] kind = "reinforcement" ->
            LET r == reinforceSoldiers([army |-> army, sold |-> p.sold],
                                       SOLDIERS_TO_RESTORE, now)
            IN [p EXCEPT !.armies[t] = r.army, !.sold = r.sold]
       [] kind = "split_formation" -> p
       [] kind = "clone_leader" ->
            IF army.leader = Null THEN [p EXCEPT !.aborted = TRUE] ELSE p
       [] kind = "reverse_control" ->
            LET enemies == enemyTypes(p.armies, t)
            IN IF Len(enemies) = 0 THEN p
               ELSE LET e == enemies[IF rev <= Len(enemies) THEN rev ELSE 1]
                        w == activateReverseControl(
                               [army |-> p.armies[e], timers |-> p.timers])
                    IN [p EXCEPT !.armies[e] = w.army, !.timers = w.timers]

\* collectPowerUp whose PowerUp.collect() does not set isCollected
collectPowerUp_Unflagged(p, i, t, rev, now) ==
  applyPowerUp(p, p.powerUps[i].type, t, rev, now)

\* PowerUpManager.collectPowerUp(powerUp, army) for the power-up at index i
collectPowerUp(p, i, t, rev, now) ==
  applyPowerUp([p EXCEPT !.powerUps[i].isCollected = TRUE],
               p.powerUps[i].type, t, rev, now)

\* PowerUpManager.checkCollection(): picks[i] is the set of the armies with a
\* soldier within the pickup radius of power-up i; k runs over
\* (army, power-up) in the order of the loops
RECURSIVE checkCollection(_, _, _, _, _)
checkCollection(p, picks, k, rev, now) ==
  LET n == Len(p.powerUps)
      a == ((k - 1) \div n) + 1
      i == ((k - 1) % n) + 1
  IN IF n = 0 \/ k > 3 * n \/ p.aborted THEN p
     ELSE checkCollection(
            IF SOLDIER_TYPES[a] \in picks[i] /\ ~p.powerUps[i].isCollected
            THEN collectPowerUp(p, i, SOLDIER_TYPES[a], rev, now)
            ELSE p,
            picks, k + 1, rev, now)

\* PowerUpManager.update(delta): spawn is the type of the power-up spawned
\* in this tick ("none": spawnTimer has not run out)
updatePowerUps(p, spawn, picks, rev, now) ==
  IF ~p.isSpawning THEN p
  ELSE LET spawned == IF spawn = "none" THEN p
                      ELSE [p EXCEPT !.powerUps =
                              Append(@, [type |-> spawn, isCollected |-> FALSE])]
           q == checkCollection(spawned, picks, 1, rev, now)
       IN IF q.aborted THEN q
          ELSE [q EXCEPT !.powerUps = SelectSeq(@, LAMBDA u : ~u.isCollected)]

(* ------------------------- Game: phases and ticks ---------------------- *)
\* a callback whose armies and soldiers Game.cleanup() has destroyed: it
\* still runs, on objects that are no longer part of the game
StaleConversions(cs) ==
  [k \in DOMAIN cs |->
     [soldier |-> Null, from |-> "none", to |-> "none", stale |-> TRUE]]
StaleTimers(ts) == {[t EXCEPT !.stale = TRUE] : t \in ts}

\* Game.draggedSoldier after Game.cleanup(): neither cleanup, startGame nor
\* reset clears it, so it still refers to the Soldier of the match that was
\* destroyed, which is no object of the new one
Discarded == -1
StaleSoldier(d) == IF d = Null THEN Null ELSE Discarded

\* UIManager.hideAllScreens() leaves no screen to show a winner on
NothingShown == [winner |-> "none", count |-> 0]

\* the state after the construction of RPSArena: n soldiers per army, b the
\* bounds of the run
InitWith(n, b) ==
  /\ state = "menu"
  /\ localPlayerType = "none"
  /\ isSoloTest = FALSE
  /\ armies = NoArmies
  /\ sold = << >>
  /\ powerUpManager = NoPowerUpManager
  /\ conversions = << >>
  /\ timers = {}
  /\ isHost = FALSE
  /\ partyId = "none"
  /\ netPlayerType = "none"
  /\ screens = {"mainMenu"}
  /\ shown = NothingShown
  /\ placementTimer = PLACEMENT_TIME
  /\ clock = 0
  /\ perArmy = n
  /\ aiUpdateTimers = << >>
  /\ aiInput = << >>
  /\ draggedSoldier = Null
  /\ mirror = NoMirror
  /\ blocked = FALSE
  /\ budget = b
  /\ players = << >>
  /\ remoteInputs = << >>
  /\ syncInterval = FALSE
  /\ sent = << >>
  /\ remote = NoRemote
  /\ wire = NoWire

\* Game.startGame(playerType), with the Game.cleanup() it calls
startGame(playerType) ==
  /\ localPlayerType' = playerType
  /\ state' = "placement"
  /\ placementTimer' = PLACEMENT_TIME
  /\ conversions' = StaleConversions(conversions)
  /\ timers' = StaleTimers(timers)
  /\ armies' = [t \in Types |->
                  NewArmy(t, (IndexOf(SOLDIER_TYPES, t) - 1) * perArmy + 1,
                          perArmy)]
  /\ sold' = createSoldiers("rock", perArmy) \o createSoldiers("paper", perArmy)
               \o createSoldiers("scissors", perArmy)
  /\ powerUpManager' = [exists |-> TRUE, isSpawning |-> FALSE, powerUps |-> << >>]
  /\ screens' = {}
  /\ shown' = NothingShown
  /\ draggedSoldier' = StaleSoldier(draggedSoldier)
  /\ UNCHANGED <<clock, perArmy, aiUpdateTimers, aiInput, mirror, blocked, budget>>

\* Game.startSoloTest(), from the solo button of the main menu or the
\* play-again button of the game-over screen
StartSoloTest ==
  /\ "mainMenu" \in screens \/ ("gameOver" \in screens /\ isSoloTest)
  /\ isSoloTest' = TRUE
  /\ startGame("rock")
  /\ sent' = << >>
  /\ UNCHANGED <<isHost, partyId, netPlayerType,
                 players, remoteInputs, syncInterval, remote, wire>>

\* the start of a party match and of a rematch (NetworkManager.startGame,
\* Game.startMatch and NetworkManager.requestRematch are called by the
\* program and defined nowhere in it): Menu -> Placement, Ended -> Placement
StartMatch ==
  /\ inParty /\ netPlayerType # "none"
  /\ state \in {"menu", "ended"}
  /\ startGame(netPlayerType)
  /\ sent' = << >>
  /\ UNCHANGED <<isSoloTest, isHost, partyId, netPlayerType,
                 players, remoteInputs, syncInterval, remote, wire>>

\* Game.startBattle(): g is [state, powerUpManager]
startBattle(g) ==
  [state |-> "playing",
   powerUpManager |-> [g.powerUpManager EXCEPT !.isSpawning = TRUE]]

\* Game.update(delta) in Placement: updatePlacement and, when the timer has
\* run out, startBattle
PlacementTick(delta) ==
  /\ state = "placement"
  /\ placementTimer' = placementTimer - delta
  /\ \E g \in {IF placementTimer - delta <= 0
               THEN startBattle([state |-> state,
                                 powerUpManager |-> powerUpManager])
               ELSE [state |-> state, powerUpManager |-> powerUpManager]} :
       /\ state' = g.state
       /\ powerUpManager' = g.powerUpManager
  /\ sent' = << >>
  /\ UNCHANGED <<localPlayerType, isSoloTest, armies, sold, conversions, timers,
                 isHost, partyId, netPlayerType, screens, shown, clock,
                 perArmy, aiUpdateTimers, aiInput, draggedSoldier, mirror, blocked, budget,
                 players, remoteInputs, syncInterval, remote, wire>>

\* a ready button that starts the battle at once
Ready_StartsBattle ==
  /\ state = "placement"
  /\ \E g \in {startBattle([state |-> state, powerUpManager |-> powerUpManager])} :
       /\ state' = g.state
       /\ powerUpManager' = g.powerUpManager
  /\ sent' = << >>
  /\ UNCHANGED <<localPlayerType, isSoloTest, armies, sold, conversions, timers,
                 isHost, partyId, netPlayerType, screens, shown, placementTimer,
                 clock, perArmy, aiUpdateTimers, aiInput, draggedSoldier, mirror, blocked, budget,
                 players, remoteInputs, syncInterval, remote, wire>>

\* the ready button of the placement screen: the click handler calls
\* NetworkManager.sendReady(), which this NetworkManager does not have, and
\* ends there; nothing of the game or of the party has changed
Ready ==
  /\ state = "placement"
  /\ sent' = << >>
  /\ UNCHANGED <<state, localPlayerType, isSoloTest, armies, sold,
                 powerUpManager, conversions, timers, isHost, partyId,
                 netPlayerType, screens, shown, placementTimer, clock, perArmy, aiUpdateTimers, aiInput, draggedSoldier, mirror,
                 blocked, budget, players, remoteInputs, syncInterval, remote,
                 wire>>

\* Game.isHostOrSolo()
isHostOrSolo == isSoloTest \/ isHost

\* endGame that leaves the power-up manager as it is
endGame_KeepsPowerUps(e, arm, winnerType) ==
  LET e1 == [e EXCEPT !.state = "ended"]
  IN IF ~e.powerUpManager.exists \/ winnerType \notin DOMAIN arm THEN e1
     ELSE [e1 EXCEPT !.screens = @ \cup {"gameOver"},
                     !.shown = [winner |-> winnerType,
                                count |-> Len(arm[winnerType].soldiers)]]

\* Game.endGame(winnerType) as the values it leaves behind: e is
\* [state, powerUpManager, screens, shown]; it throws, after the assignments
\* made so far, on a null powerUpManager and on a winner without an army
endGame(e, arm, winnerType) ==
  LET e1 == [e EXCEPT !.state = "ended"]
      e2 == [e1 EXCEPT !.powerUpManager.isSpawning = FALSE,
                       !.powerUpManager.powerUps = << >>]
  IN IF ~e.powerUpManager.exists THEN e1
     ELSE IF winnerType \notin DOMAIN arm THEN e2
     ELSE [e2 EXCEPT !.screens = @ \cup {"gameOver"},
                     !.shown = [winner |-> winnerType,
                                count |-> Len(arm[winnerType].soldiers)]]

\* checkWinCondition that ends the match as soon as one army is eliminated
checkWinCondition_FirstElimination(e, arm) ==
  IF Cardinality(activeArmies(arm)) \in {1, 2}
  THEN endGame(e, arm, CHOOSE t \in activeArmies(arm) : TRUE)
  ELSE e

\* Game.checkWinCondition()
checkWinCondition(e, arm) ==
  IF Cardinality(activeArmies(arm)) = 1
  THEN endGame(e, arm, CHOOSE t \in activeArmies(arm) : TRUE)
  ELSE e

\* the subsets of S with at most k elements
RECURSIVE SubsetsUpTo(_, _)
SubsetsUpTo(S, k) ==
  IF k = 0 THEN {{}}
  ELSE LET prev == SubsetsUpTo(S, k - 1)
       IN prev \cup {T \cup {x} : T \in prev, x \in S}

\* the pairs of distinct soldiers listed in the rosters of two armies
CrossPairs(arm) ==
  {pr \in UNION {{{o1, o2} : o1 \in Range(arm[q[1]].soldiers),
                             o2 \in Range(arm[q[2]].soldiers)} :
                  q \in {r \in (DOMAIN arm) \X (DOMAIN arm) : r[1] # r[2]}} :
     Cardinality(pr) = 2}

\* what one Playing tick can meet: contacts, a spawn, the enemy drawn by a
\* reverse-control power-up
TickInputs ==
  LET spawns == IF budget.spawns > 0 /\ powerUpManager.isSpawning
                THEN POWERUP_TYPES \cup {"none"} ELSE {"none"}
  IN {in \in [near : SubsetsUpTo(CrossPairs(armies), budget.events),
              spawn : spawns, rev : {1, 2}] :
        Cardinality(in.near) + (IF in.spawn = "none" THEN 0 ELSE 1)
          <= budget.events}

\* and the pick-ups: picks[i] is the set of the armies that have a soldier
\* within the pickup radius of power-up i
PickInputs(in) ==
  LET n == Len(powerUpManager.powerUps) + (IF in.spawn = "none" THEN 0 ELSE 1)
      kinds == [i \in 1..n |-> IF i <= Len(powerUpManager.powerUps)
                               THEN powerUpManager.powerUps[i].type ELSE in.spawn]
  IN {pk \in [1..n -> SUBSET Types] :
        LET picked == {i \in 1..n : pk[i] # {}}
        IN /\ \A i \in picked : \A t \in pk[i] : Len(armies[t].soldiers) > 0
           /\ Cardinality(in.near) + (IF in.spawn = "none" THEN 0 ELSE 1)
                + Cardinality(picked) <= budget.events
           /\ in.rev = 2 <=> \E i \in picked : kinds[i] = "reverse_control"}

\* Game.updateHost(delta): army.update moves soldiers (the contacts and
\* pick-ups of the tick are its inputs; the input vectors of step 2 are
\* those of GetAIInput and PlayerInput), then checkArmyCollisions,
\* powerUpManager.update, updateSoldierCounts and checkWinCondition
updateHost(in, picks) ==
  \E c \in {checkArmyCollisions([sold |-> sold, conversions |-> conversions,
                                 blocked |-> FALSE], in.near, armies)} :
  \E p \in {updatePowerUps([armies |-> armies, sold |-> c.sold,
                            timers |-> timers, aborted |-> FALSE,
                            powerUps |-> powerUpManager.powerUps,
                            isSpawning |-> powerUpManager.isSpawning],
                           in.spawn, picks, in.rev, clock)} :
  \E e \in {IF p.aborted
            THEN [state |-> state,
                  powerUpManager |-> [powerUpManager EXCEPT !.powerUps = p.powerUps],
                  screens |-> screens, shown |-> shown]
            ELSE checkWinCondition(
                   [state |-> state,
                    powerUpManager |-> [powerUpManager EXCEPT !.powerUps = p.powerUps],
                    screens |-> screens, shown |-> shown], p.armies)} :
    /\ Len(c.conversions) - Len(conversions) <= budget.conversions
    /\ conversions' = c.conversions
    /\ blocked' = c.blocked
    /\ sold' = p.sold
    /\ armies' = p.armies
    /\ timers' = p.timers
    /\ state' = e.state
    /\ powerUpManager' = e.powerUpManager
    /\ screens' = e.screens
    /\ shown' = e.shown
    /\ clock' = IF Len(p.sold) > Len(c.sold) THEN clock + 1 ELSE clock
    /\ budget' = [budget EXCEPT
                    !.conversions = @ - (Len(c.conversions) - Len(conversions)),
                    !.spawns = IF in.spawn = "none" THEN @ ELSE @ - 1]

\* Game.update(delta) in Playing on the host or in solo test
HostTick ==
  /\ state = "playing"
  /\ isHostOrSolo
  /\ \E in \in TickInputs : \E picks \in PickInputs(in) : updateHost(in, picks)
  /\ sent' = << >>
  /\ UNCHANGED <<localPlayerType, isSoloTest, isHost, partyId, netPlayerType,
                 placementTimer, perArmy, aiUpdateTimers, aiInput, draggedSoldier, mirror,
                 players, remoteInputs, syncInterval, remote, wire>>

\* the directions of the pressed keys that a tick reads: none, one axis, a
\* diagonal
KeyDirections == {<<0, 0>>, <<1, 0>>, <<0, -1>>, <<1, -1>>}

\* the movement that updateHost and updateClient build from the keys, in
\* thousandths: a diagonal is divided by its length, sqrt(2)
movementOf(keys) ==
  IF keys[1] # 0 /\ keys[2] # 0
  THEN [x |-> keys[1] * 707, z |-> keys[2] * 707]
  ELSE [x |-> keys[1] * 1000, z |-> keys[2] * 1000]

\* NetworkManager.sendInput(input): what it hands to broadcast
sendInput(input) ==
  IF isHost THEN << >>
  ELSE <<[type |-> "player_input", playerType |-> netPlayerType,
          x |-> input.x, z |-> input.z]>>

\* Game.updateGame(delta) on a peer that is neither host nor solo test:
\* Game.updateClient(delta) sends the input of the local army, unless that
\* army is eliminated or the last input was sent less than 50 ms ago (due),
\* runs the bobbing animation of the soldiers and refreshes the counters
ClientTick ==
  /\ state = "playing"
  /\ ~isHostOrSolo
  /\ \E keys \in KeyDirections : \E due \in BOOLEAN :
       LET isEliminated == \/ localPlayerType \notin DOMAIN armies
                           \/ Len(armies[localPlayerType].soldiers) = 0
       IN Send(partyId,
               IF ~isEliminated /\ due THEN sendInput(movementOf(keys)) ELSE << >>,
               wire.toLocal)
  /\ UNCHANGED <<state, localPlayerType, isSoloTest, armies, sold,
                 powerUpManager, conversions, timers, isHost, partyId,
                 netPlayerType, screens, shown, placementTimer, clock, perArmy, aiUpdateTimers, aiInput, draggedSoldier, mirror,
                 blocked, budget, players, remoteInputs, syncInterval, remote>>

\* the end of the oldest pending conversion animation: its callback runs, and
\* reports the conversion to the party unless this is a solo test (the
\* soldier of a stale callback is no longer part of the game)
CompleteConversion ==
  /\ Len(conversions) > 0
  /\ \E cv \in {Head(conversions)} :
       IF cv.stale THEN UNCHANGED <<armies, sold>>
       ELSE \E w \in {completeConversion([armies |-> armies, sold |-> sold], cv)} :
              armies' = w.armies /\ sold' = w.sold
  /\ conversions' = Tail(conversions)
  /\ Send(partyId,
          IF isSoloTest THEN << >>
          ELSE <<[type |-> "conversion",
                  soldierId |-> IF Head(conversions).stale THEN Null
                                ELSE sold[Head(conversions).soldier].id,
                  fromType |-> Head(conversions).from,
                  toType |-> Head(conversions).to]>>,
          wire.toLocal)
  /\ UNCHANGED <<state, localPlayerType, isSoloTest, powerUpManager, timers,
                 isHost, partyId, netPlayerType, screens, shown,
                 placementTimer, clock, perArmy, aiUpdateTimers, aiInput, draggedSoldier, mirror, blocked, budget,
                 players, remoteInputs, syncInterval, remote>>

\* a setTimeout callback of a power-up effect that is due runs
FireTimer ==
  /\ \E t \in timers :
       /\ t.remaining = 0
       /\ timers' = timers \ {t}
       /\ armies' = IF t.stale THEN armies
                    ELSE [armies EXCEPT ![t.army] = expire(@, t.kind)]
  /\ sent' = << >>
  /\ UNCHANGED <<state, localPlayerType, isSoloTest, sold, powerUpManager,
                 conversions, isHost, partyId, netPlayerType, screens, shown,
                 placementTimer, clock, perArmy, aiUpdateTimers, aiInput, draggedSoldier, mirror, blocked, budget,
                 players, remoteInputs, syncInterval, remote, wire>>

\* one second passes: every pending timeout is one second closer, and no
\* timeout that is due is left behind
AdvanceTime ==
  /\ timers # {}
  /\ \A t \in timers : t.remaining > 0
  /\ timers' = {[t EXCEPT !.remaining = @ - 1] : t \in timers}
  /\ sent' = << >>
  /\ UNCHANGED <<state, localPlayerType, isSoloTest, armies, sold,
                 powerUpManager, conversions, isHost, partyId, netPlayerType,
                 screens, shown, placementTimer, clock, perArmy, aiUpdateTimers, aiInput, draggedSoldier, mirror, blocked, budget,
                 players, remoteInputs, syncInterval, remote, wire>>

(* --------------------------- NetworkManager ---------------------------- *)
\* the NetworkManager fields of this peer that the roster handlers work on
LocalNM ==
  [isHost |-> isHost, partyId |-> partyId, localPlayerType |-> netPlayerType,
   players |-> players]

\* Map.has(type) and Map.set(type, {id, username, connected: true}) on the
\* entries <<type, [id, connected]>> of NetworkManager.players
hasPlayer(pl, type) == \E i \in DOMAIN pl : pl[i][1] = type

setPlayer(pl, type, id, connected) ==
  IF hasPlayer(pl, type)
  THEN [i \in DOMAIN pl |->
          IF pl[i][1] = type THEN <<type, [id |-> id, connected |-> connected]>>
          ELSE pl[i]]
  ELSE Append(pl, <<type, [id |-> id, connected |-> connected]>>)

\* getNextAvailableType that hands out Rock as well
getNextAvailableType_WithRock(pl) ==
  IF ~hasPlayer(pl, "paper") THEN "paper"
  ELSE IF ~hasPlayer(pl, "scissors") THEN "scissors"
  ELSE "rock"

\* NetworkManager.getNextAvailableType(): "none" for null
getNextAvailableType(pl) ==
  IF ~hasPlayer(pl, "paper") THEN "paper"
  ELSE IF ~hasPlayer(pl, "scissors") THEN "scissors"
  ELSE "none"

\* NetworkManager.getPlayersArray()
getPlayersArray(pl) ==
  [i \in DOMAIN pl |->
     [type |-> pl[i][1], id |-> pl[i][2].id, connected |-> pl[i][2].connected]]

\* NetworkManager.syncPlayersFromArray(arr): clear, then set entry by entry
RECURSIVE syncLoop(_, _, _)
syncLoop(pl, arr, i) ==
  IF i > Len(arr) THEN pl
  ELSE syncLoop(setPlayer(pl, arr[i].type, arr[i].id, arr[i].connected), arr, i + 1)

syncPlayersFromArray(arr) == syncLoop(<< >>, arr, 1)

\* handleMessage, case join_request, on the NetworkManager nm: the fields it
\* leaves and the messages it broadcasts
onJoinRequest(nm, data) ==
  IF ~nm.isHost THEN [nm |-> nm, out |-> << >>]
  ELSE LET assignedType == getNextAvailableType(nm.players)
           pl == setPlayer(nm.players, assignedType, data.id, TRUE)
       IN IF assignedType # "none"
          THEN [nm |-> [nm EXCEPT !.players = pl],
                out |-> <<[type |-> "player_assigned", targetId |-> data.id,
                           playerType |-> assignedType,
                           players |-> getPlayersArray(pl)]>>]
          ELSE [nm |-> nm,
                out |-> <<[type |-> "party_full", targetId |-> data.id]>>]

\* a player_assigned handler that takes the type and leaves the roster alone
onPlayerAssigned_TypeOnly(nm, id, data) ==
  IF data.targetId = id THEN [nm EXCEPT !.localPlayerType = data.playerType]
  ELSE nm

\* handleMessage, case player_assigned, on the peer with this id
onPlayerAssigned(nm, id, data) ==
  IF data.targetId = id
  THEN [nm EXCEPT !.localPlayerType = data.playerType,
                  !.players = syncPlayersFromArray(data.players)]
  ELSE [nm EXCEPT !.players = syncPlayersFromArray(data.players)]

\* handlePeerDisconnect that deletes the entries of the player
handlePeerDisconnect_Removes(pl, playerId) ==
  SelectSeq(pl, LAMBDA entry : entry[2].id # playerId)

\* NetworkManager.handlePeerDisconnect(playerId): the first entry of that
\* player is marked as not connected
handlePeerDisconnect(pl, playerId) ==
  LET found == {i \in DOMAIN pl : pl[i][2].id = playerId}
  IN IF found = {} THEN pl
     ELSE [pl EXCEPT ![CHOOSE i \in found : \A j \in found : i <= j][2].connected
                       = FALSE]

\* the NetworkManager fields after leaveParty()
nmLeaveParty(nm) ==
  [nm EXCEPT !.players = << >>, !.isHost = FALSE, !.partyId = "none"]

\* NetworkManager.leaveParty()
leaveParty ==
  /\ Send(partyId, <<[type |-> "player_left"]>>, << >>)
  /\ syncInterval' = FALSE
  /\ players' = << >>
  /\ remoteInputs' = << >>
  /\ isHost' = FALSE
  /\ partyId' = "none"

\* Game.reset()
reset ==
  /\ conversions' = StaleConversions(conversions)
  /\ timers' = StaleTimers(timers)
  /\ armies' = NoArmies
  /\ sold' = << >>
  /\ powerUpManager' = NoPowerUpManager
  /\ state' = "menu"
  /\ localPlayerType' = "none"
  /\ isSoloTest' = FALSE
  /\ screens' = {"mainMenu"}
  /\ shown' = NothingShown
  /\ draggedSoldier' = StaleSoldier(draggedSoldier)

\* NetworkManager.leaveParty() and Game.reset(), in this order: the back-to-menu
\* button of the game-over screen and NetworkManager.handleHostDisconnect()
leaveAndReset ==
  /\ leaveParty
  /\ reset
  /\ UNCHANGED <<netPlayerType, placementTimer, clock, perArmy, aiUpdateTimers,
                 aiInput, mirror, blocked, budget, remote>>

BackToMenu ==
  /\ "gameOver" \in screens
  /\ leaveAndReset

\* the connection to the host closes on a peer that joined a party
HandleHostDisconnect ==
  /\ inParty /\ ~isHost
  /\ leaveAndReset

\* NetworkManager.createParty(), from the main menu, with the startHostSync()
\* it ends with
CreateParty(r) ==
  /\ "mainMenu" \in screens
  /\ ~inParty
  /\ partyId' = String(generatePartyId(r))
  /\ isHost' = TRUE
  /\ netPlayerType' = "rock"
  /\ players' = setPlayer(players, "rock", LocalId, TRUE)
  /\ screens' = {"lobby"}
  /\ shown' = NothingShown
  /\ syncInterval' = TRUE
  /\ Send(String(generatePartyId(r)), << >>, << >>)
  /\ UNCHANGED <<state, localPlayerType, isSoloTest, armies, sold,
                 powerUpManager, conversions, timers, placementTimer,
                 clock, perArmy, aiUpdateTimers, aiInput, draggedSoldier, mirror, blocked, budget, remoteInputs, remote>>

\* NetworkManager.joinParty(partyId), from the join dialog or an accepted
\* invite (IdentityUI.startInviteListener), which can come at any time
JoinParty(id) ==
  /\ partyId' = String(toUpperCase(id))
  /\ isHost' = FALSE
  /\ Send(String(toUpperCase(id)), <<[type |-> "join_request", id |-> LocalId]>>, << >>)
  /\ UNCHANGED <<state, localPlayerType, isSoloTest, armies, sold,
                 powerUpManager, conversions, timers, netPlayerType, screens,
                 shown, placementTimer, clock, perArmy, aiUpdateTimers, aiInput, draggedSoldier, mirror, blocked, budget,
                 players, remoteInputs, syncInterval, remote>>

\* handleMessage(data) returns at once for a message of this peer itself, and
\* a peer that is in no party is subscribed to no channel
Handles(data) == inParty /\ data.fromId # LocalId

\* handleMessage, join_request
JoinRequest(data) ==
  /\ Handles(data)
  /\ \E r \in {onJoinRequest(LocalNM, data)} :
       /\ players' = r.nm.players
       /\ Send(partyId, r.out, Received(data))
  /\ UNCHANGED <<state, localPlayerType, isSoloTest, armies, sold,
                 powerUpManager, conversions, timers, isHost, partyId,
                 netPlayerType, screens, shown, placementTimer, clock, perArmy, aiUpdateTimers, aiInput, draggedSoldier, mirror,
                 blocked, budget, remoteInputs, syncInterval, remote>>

\* handleMessage, player_assigned: for the peer it is addressed to, its type,
\* the roster and the lobby; for every other peer, the roster
PlayerAssigned(data) ==
  /\ Handles(data) /\ ~isHost
  /\ \E nm \in {onPlayerAssigned(LocalNM, LocalId, data)} :
       /\ netPlayerType' = nm.localPlayerType
       /\ players' = nm.players
  /\ IF data.targetId = LocalId
     THEN screens' = {"lobby"} /\ shown' = NothingShown
     ELSE UNCHANGED <<screens, shown>>
  /\ Send(partyId, << >>, Received(data))
  /\ UNCHANGED <<state, localPlayerType, isSoloTest, armies, sold,
                 powerUpManager, conversions, timers, isHost, partyId,
                 placementTimer, clock, perArmy, aiUpdateTimers, aiInput, draggedSoldier, mirror, blocked, budget,
                 remoteInputs, syncInterval, remote>>

\* handleMessage, party_full: the peer it is addressed to leaves the party
PartyFull(data) ==
  /\ Handles(data)
  /\ IF data.targetId = LocalId
     THEN leaveParty
     ELSE /\ Send(partyId, << >>, Received(data))
          /\ UNCHANGED <<isHost, partyId, players, remoteInputs, syncInterval>>
  /\ UNCHANGED <<state, localPlayerType, isSoloTest, armies, sold,
                 powerUpManager, conversions, timers, netPlayerType, screens,
                 shown, placementTimer, clock, perArmy, aiUpdateTimers, aiInput, draggedSoldier, mirror, blocked, budget, remote>>

\* handleMessage, player_left: handlePeerDisconnect(data.fromId)
PlayerLeft(data) ==
  /\ Handles(data)
  /\ players' = handlePeerDisconnect(players, data.fromId)
  /\ Send(partyId, << >>, Received(data))
  /\ UNCHANGED <<state, localPlayerType, isSoloTest, armies, sold,
                 powerUpManager, conversions, timers, isHost, partyId,
                 netPlayerType, screens, shown, placementTimer, clock, perArmy, aiUpdateTimers, aiInput, draggedSoldier, mirror,
                 blocked, budget, remoteInputs, syncInterval, remote>>

\* a set that forgets the inputs of the other factions
setInput_Forgetful(ri, type, v) == [t \in {type} |-> v]

\* Map.set(key, value) on NetworkManager.remoteInputs
setInput(ri, type, v) ==
  [t \in DOMAIN ri \cup {type} |-> IF t = type THEN v ELSE ri[t]]

\* NetworkManager.getPlayerInput(type)
getPlayerInput(ri, type) == IF type \in DOMAIN ri THEN ri[type] ELSE <<0, 0>>

\* handleMessage, player_input
PlayerInput(data) ==
  /\ Handles(data)
  /\ remoteInputs' = IF isHost THEN setInput(remoteInputs, data.playerType,
                                             <<data.x, data.z>>)
                     ELSE remoteInputs
  /\ Send(partyId, << >>, Received(data))
  /\ UNCHANGED <<state, localPlayerType, isSoloTest, armies, sold,
                 powerUpManager, conversions, timers, isHost, partyId,
                 netPlayerType, screens, shown, placementTimer, clock, perArmy, aiUpdateTimers, aiInput, draggedSoldier, mirror,
                 blocked, budget, players, syncInterval, remote>>

\* coordinates are counted in steps of their precision; a hundredth, the
\* precision of Number.toFixed(2), is StepsPerCent of them
StepsPerCent == 3

\* Number(x.toFixed(2)): the nearest hundredth, a half rounding up
toFixed2(x) == ((2 * x + StepsPerCent) \div (2 * StepsPerCent)) * StepsPerCent

\* a lerp with a factor of 1.5 instead of 0.5
lerp_Overshoot(local, server) ==
  IF 3 * server >= local THEN (3 * server - local) \div 2 ELSE 0

\* local += (server - local) * 0.5 in floating point: the midpoint when it
\* is a coordinate, else the neighbour of the midpoint with the even last
\* digit
lerp(local, server) ==
  IF (local + server) % 2 = 0 THEN (local + server) \div 2
  ELSE IF ((local + server - 1) \div 2) % 2 = 0
       THEN (local + server - 1) \div 2
       ELSE (local + server + 1) \div 2

\* the game_state message that the interval callback of startHostSync builds
gameState(arm, s) ==
  [type |-> "game_state",
   armies |-> [k \in 1..Len(SOLDIER_TYPES) |->
                 <<SOLDIER_TYPES[k],
                   [soldiers |-> [i \in DOMAIN arm[SOLDIER_TYPES[k]].soldiers |->
                                    LET o == arm[SOLDIER_TYPES[k]].soldiers[i]
                                    IN [id |-> s[o].id, x |-> toFixed2(s[o].x),
                                        z |-> toFixed2(s[o].z),
                                        isLeader |-> s[o].isLeader]],
                    isInvincible |-> arm[SOLDIER_TYPES[k]].isInvincible,
                    speedMultiplier |-> arm[SOLDIER_TYPES[k]].speedMultiplier]>>]]

\* the callback of the setInterval of startHostSync, SYNC_RATE times a second
\* for as long as the interval is not cleared
SyncTick ==
  /\ syncInterval
  /\ Send(partyId, IF state = "playing" THEN <<gameState(armies, sold)>>
                   ELSE << >>, wire.toLocal)
  /\ UNCHANGED <<state, localPlayerType, isSoloTest, armies, sold,
                 powerUpManager, conversions, timers, isHost, partyId,
                 netPlayerType, screens, shown, placementTimer, clock, perArmy, aiUpdateTimers, aiInput, draggedSoldier, mirror,
                 blocked, budget, players, remoteInputs, syncInterval, remote>>

\* handleGameStateSync, the inner forEach: the soldiers of one army entry, on
\* the roster of the local army
RECURSIVE syncSoldiers(_, _, _, _)
syncSoldiers(s, roster, list, k) ==
  IF k > Len(list) THEN s
  ELSE LET found == {i \in DOMAIN roster : s[roster[i]].id = list[k].id}
           o == roster[CHOOSE i \in found : \A j \in found : i <= j]
       IN IF found = {} THEN syncSoldiers(s, roster, list, k + 1)
          ELSE syncSoldiers([s EXCEPT ![o].x = lerp(@, list[k].x),
                                      ![o].z = lerp(@, list[k].z)],
                            roster, list, k + 1)

\* handleGameStateSync, the outer forEach over Object.entries(data.armies):
\* w is [armies, sold]
RECURSIVE syncArmies(_, _, _)
syncArmies(w, entries, k) ==
  IF k > Len(entries) THEN w
  ELSE LET type == entries[k][1]
           armyData == entries[k][2]
       IN IF type \notin DOMAIN w.armies THEN syncArmies(w, entries, k + 1)
          ELSE syncArmies(
                 [armies |-> [w.armies EXCEPT
                                ![type].isInvincible = armyData.isInvincible,
                                ![type].speedMultiplier = armyData.speedMultiplier],
                  sold |-> syncSoldiers(w.sold, w.armies[type].soldiers,
                                        armyData.soldiers, 1)],
                 entries, k + 1)

\* handleGameStateSync without the isHost check
handleGameStateSync_OnHost(w, host, phase, data) ==
  IF phase # "playing" THEN w ELSE syncArmies(w, data.armies, 1)

\* NetworkManager.handleGameStateSync(data)
handleGameStateSync(w, host, phase, data) ==
  IF host THEN w
  ELSE IF phase # "playing" THEN w
  ELSE syncArmies(w, data.armies, 1)

\* handleMessage, game_state
GameStateMessage(data) ==
  /\ Handles(data)
  /\ \E w \in {handleGameStateSync([armies |-> armies, sold |-> sold],
                                   isHost, state, data)} :
       armies' = w.armies /\ sold' = w.sold
  /\ Send(partyId, << >>, Received(data))
  /\ UNCHANGED <<state, localPlayerType, isSoloTest, powerUpManager,
                 conversions, timers, isHost, partyId, netPlayerType, screens,
                 shown, placementTimer, clock, perArmy, aiUpdateTimers, aiInput, draggedSoldier, mirror, blocked, budget,
                 players, remoteInputs, syncInterval, remote>>

\* handleMessage, game_over: this.app.game.endGame(data.winner)
GameOverMessage(winner) ==
  /\ inParty
  /\ \E e \in {endGame([state |-> state, powerUpManager |-> powerUpManager,
                        screens |-> screens, shown |-> shown], armies, winner)} :
        /\ state' = e.state
        /\ powerUpManager' = e.powerUpManager
        /\ screens' = e.screens
        /\ shown' = e.shown
  /\ sent' = << >>
  /\ UNCHANGED <<localPlayerType, isSoloTest, armies, sold, conversions, timers,
                 isHost, partyId, netPlayerType, placementTimer, clock, perArmy, aiUpdateTimers, aiInput, draggedSoldier, mirror,
                 blocked, budget, players, remoteInputs, syncInterval, remote,
                 wire>>

\* NetworkManager.handleRemoteConversion(data): c is [sold, conversions]
handleRemoteConversion(c, arm, soldierId, fromType, toType) ==
  IF fromType \in DOMAIN arm /\ toType \in DOMAIN arm
  THEN LET roster == arm[fromType].soldiers
           found == {i \in DOMAIN roster : c.sold[roster[i]].id = soldierId}
       IN IF found = {} THEN c
          ELSE LET o == roster[CHOOSE i \in found : \A j \in found : i <= j]
               IN IF c.sold[o].isConverting THEN c
                  ELSE convertSoldier(c, o, fromType, toType)
  ELSE c

UnknownId == <<"unknown", "S", 0, 0>>

\* handleMessage, conversion
ConversionMessage(soldierId, fromType, toType) ==
  /\ inParty
  /\ \E c \in {handleRemoteConversion([sold |-> sold, conversions |-> conversions],
                                      armies, soldierId, fromType, toType)} :
        /\ Len(c.conversions) - Len(conversions) <= budget.conversions
        /\ sold' = c.sold
        /\ conversions' = c.conversions
        /\ budget' = [budget EXCEPT
                        !.conversions = @ - (Len(c.conversions) - Len(conversions))]
  /\ sent' = << >>
  /\ UNCHANGED <<state, localPlayerType, isSoloTest, armies, powerUpManager,
                 timers, isHost, partyId, netPlayerType, screens, shown,
                 placementTimer, clock, perArmy, aiUpdateTimers, aiInput, draggedSoldier, mirror, blocked, players,
                 remoteInputs, syncInterval, remote, wire>>

(* ----------------------- the other peer of a party --------------------- *)
\* what the other peer broadcasts on the channel of a party, this peer
\* receiving it when it is subscribed to that channel; rest is what stays
\* on the way to the other peer
RemoteSend(channel, out, rest) ==
  /\ wire' = [toLocal |-> relay(channel, partyId, wire.toLocal,
                                   [i \in DOMAIN out |->
                                      broadcast(RemoteId, out[i])]),
              toRemote |-> rest]
  /\ Len(wire'.toLocal) <= MaxInFlight
  /\ UNCHANGED <<state, localPlayerType, isSoloTest, armies, sold,
                 powerUpManager, conversions, timers, isHost, partyId,
                 netPlayerType, screens, shown, placementTimer, clock, perArmy, aiUpdateTimers, aiInput, draggedSoldier, mirror,
                 blocked, budget, players, remoteInputs, syncInterval>>
  /\ sent' = << >>

\* createParty() on the other peer
RemoteCreateParty ==
  /\ remote.partyId = "none"
  /\ remote' = [remote EXCEPT !.partyId = RemoteParty, !.isHost = TRUE,
                              !.localPlayerType = "rock",
                              !.players = setPlayer(@, "rock", RemoteId, TRUE)]
  /\ RemoteSend(RemoteParty, << >>, << >>)

\* joinParty(partyId) on the other peer, with the id of the party of this peer
RemoteJoinParty ==
  /\ remote.partyId = "none" \/ remote.isHost
  /\ remote' = [remote EXCEPT !.partyId = LocalParty, !.isHost = FALSE]
  /\ RemoteSend(LocalParty, <<[type |-> "join_request", id |-> RemoteId]>>, << >>)

\* leaveParty() on the other peer
RemoteLeaveParty ==
  /\ remote.partyId # "none"
  /\ remote' = nmLeaveParty(remote)
  /\ RemoteSend(remote.partyId, <<[type |-> "player_left"]>>, << >>)

\* handleMessage(data) on the other peer, for the next message on its way
RemoteReceive ==
  /\ wire.toRemote # << >>
  /\ \E data \in {Head(wire.toRemote)} :
       CASE data.type = "join_request" ->
              \E r \in {onJoinRequest(remote, data)} :
                /\ remote' = r.nm
                /\ RemoteSend(remote.partyId, r.out, Tail(wire.toRemote))
         [] data.type = "player_assigned" ->
              /\ remote' = onPlayerAssigned(remote, RemoteId, data)
              /\ RemoteSend(remote.partyId, << >>, Tail(wire.toRemote))
         [] data.type = "party_full" /\ data.targetId = RemoteId ->
              /\ remote' = nmLeaveParty(remote)
              /\ RemoteSend(remote.partyId, <<[type |-> "player_left"]>>, << >>)
         [] data.type = "player_left" ->
              /\ remote' = [remote EXCEPT
                              !.players = handlePeerDisconnect(@, data.fromId)]
              /\ RemoteSend(remote.partyId, << >>, Tail(wire.toRemote))
         [] OTHER ->
              /\ UNCHANGED remote
              /\ RemoteSend(remote.partyId, << >>, Tail(wire.toRemote))

(* --------------------------- the specifications ------------------------ *)
\* frame times: half the placement time, and a frame that took all of it (a
\* tab that was in the background)
Deltas == {PLACEMENT_TIME \div 2, PLACEMENT_TIME}

MessageTypes == Types \cup {"unknown"}
MessageIds == {sold[o].id : o \in DOMAIN sold} \cup {UnknownId}
\* the conversions a peer reports are those of Game.handleCollision, of a
\* loser to the faction that beats it; a message can also name no faction
MessageConversions ==
  {ft \in MessageTypes \X MessageTypes :
     \/ ft[1] \in Types /\ ft[2] \in Types /\ getRPSWinner(ft[1], ft[2]) = ft[2]
     \/ ft = <<"unknown", "unknown">>}

\* the player_assigned messages that the host of a party of this peer and one
\* guest sends: to this peer, and to the guest when this peer has its type
AssignedMessages ==
  {broadcast(GuestId, r.out[1]) :
     r \in {onJoinRequest([isHost |-> TRUE, partyId |-> OtherParty,
                           localPlayerType |-> "rock", players |-> pl],
                          [type |-> "join_request", id |-> LocalId,
                           fromId |-> LocalId]) :
              pl \in {<<<<"rock", [id |-> GuestId, connected |-> TRUE]>>>>,
                      <<<<"rock", [id |-> GuestId, connected |-> TRUE]>>,
                        <<"paper", [id |-> GuestId, connected |-> TRUE]>>>>}}}

\* a solo test: the battle, without power-ups
Init ==
  InitWith(ArmySize, [conversions |-> MaxConversions, spawns |-> 0,
                      events |-> MaxEvents])

Next ==
  \/ StartSoloTest
  \/ \E delta \in Deltas : PlacementTick(delta)
  \/ HostTick
  \/ CompleteConversion

Spec == Init /\ [][Next]_vars

\* a solo test with power-ups and their timeouts
InitPower ==
  InitWith(PowerArmySize, [conversions |-> PowerConversions,
                           spawns |-> MaxSpawns, events |-> PowerEvents])

NextPower ==
  \/ StartSoloTest
  \/ \E delta \in Deltas : PlacementTick(delta)
  \/ HostTick
  \/ CompleteConversion
  \/ FireTimer
  \/ AdvanceTime
  \/ BackToMenu

SpecPower == InitPower /\ [][NextPower]_vars

\* one peer of a party (or on its own): every operation that moves the phase,
\* and the messages
InitPeer ==
  InitWith(PeerArmySize, [conversions |-> PeerConversions, spawns |-> 0,
                          events |-> PeerEvents])

NextPeer ==
  \/ StartSoloTest
  \/ StartMatch
  \/ \E delta \in Deltas : PlacementTick(delta)
  \/ Ready
  \/ HostTick
  \/ CompleteConversion
  \/ BackToMenu
  \/ HandleHostDisconnect
  \/ CreateParty(LocalDraw)
  \/ JoinParty(OtherCode)
  \/ \E data \in AssignedMessages : PlayerAssigned(data)
  \/ \E w \in MessageTypes : GameOverMessage(w)
  \/ \E id \in MessageIds : \E ft \in MessageConversions :
       ConversionMessage(id, ft[1], ft[2])

SpecPeer == InitPeer /\ [][NextPeer]_vars

\* Army.reinforceSoldiers(count) on armies of every size around maxSoldiers:
\* the rosters are drawn, the cap is GAME_CONFIG.SOLDIERS_PER_ARMY
MaxRoster == 6
MaxCount == 3
\* reinforceSoldiers calls in one run
MaxCalls == 1

\* a solo battle in which the armies have sizes of the set sizes, with the
\* ids of createSoldiers; b the bounds of the run
InitRosters(sizes, b) ==
  \E nr \in sizes : \E np \in sizes : \E ns \in sizes :
    /\ state = "playing"
    /\ localPlayerType = "rock"
    /\ isSoloTest = TRUE
    /\ armies = [t \in Types |->
                   [NewArmy(t, CASE t = "rock" -> 1
                                 [] t = "paper" -> nr + 1
                                 [] t = "scissors" -> nr + np + 1,
                            CASE t = "rock" -> nr
                              [] t = "paper" -> np
                              [] t = "scissors" -> ns)
                      EXCEPT !.maxSoldiers = SOLDIERS_PER_ARMY]]
    /\ sold = createSoldiers("rock", nr) \o createSoldiers("paper", np)
                \o createSoldiers("scissors", ns)
    /\ powerUpManager = [exists |-> TRUE, isSpawning |-> TRUE, powerUps |-> << >>]
    /\ conversions = << >>
    /\ timers = {}
    /\ isHost = FALSE
    /\ partyId = "none"
    /\ netPlayerType = "none"
    /\ screens = {}
    /\ shown = NothingShown
    /\ placementTimer = 0
    /\ clock = 0
    /\ perArmy = SOLDIERS_PER_ARMY
    /\ aiUpdateTimers = << >>
    /\ aiInput = << >>
    /\ draggedSoldier = Null
    /\ mirror = NoMirror
    /\ blocked = FALSE
    /\ budget = b
    /\ players = << >>
    /\ remoteInputs = << >>
    /\ syncInterval = FALSE
    /\ sent = << >>
    /\ remote = NoRemote
    /\ wire = NoWire

InitReinforce ==
  InitRosters(0..MaxRoster, [conversions |-> 0, spawns |-> MaxCalls, events |-> 0])

\* army.reinforceSoldiers(count) on the army of type t
Reinforce(t, count) ==
  /\ budget.spawns > 0
  /\ budget' = [budget EXCEPT !.spawns = @ - 1]
  /\ \E w \in {reinforceSoldiers([army |-> armies[t], sold |-> sold], count, clock)} :
       /\ armies' = [armies EXCEPT ![t] = w.army]
       /\ sold' = w.sold
       /\ clock' = IF Len(w.sold) > Len(sold) THEN clock + 1 ELSE clock
  /\ sent' = << >>
  /\ UNCHANGED <<state, localPlayerType, isSoloTest, powerUpManager, conversions,
                 timers, isHost, partyId, netPlayerType, screens, shown,
                 placementTimer, perArmy, aiUpdateTimers, aiInput, draggedSoldier, mirror, blocked,
                 players, remoteInputs, syncInterval, remote, wire>>

NextReinforce == \E t \in Types : \E count \in 0..MaxCount : Reinforce(t, count)

SpecReinforce == InitReinforce /\ [][NextReinforce]_vars

\* the ticks of a solo battle whose armies are short of soldiers, with the
\* power-ups that spawn and are picked up in them
CollectRoster == 1
CollectSpawns == 2
CollectEvents == 2

InitCollect ==
  InitRosters(1..CollectRoster, [conversions |-> 0, spawns |-> CollectSpawns,
                                 events |-> CollectEvents])

NextCollect ==
  \/ HostTick
  \/ FireTimer
  \/ AdvanceTime

SpecCollect == InitCollect /\ [][NextCollect]_vars

\* a party of two peers, from its creation to the start of a match: this
\* peer and the other one, either of them the host, and the messages between
\* them
Incoming(type) ==
  IF wire.toLocal # << >> /\ Head(wire.toLocal).type = type
  THEN {Head(wire.toLocal)} ELSE {}

\* the join_request of a further participant, as this peer hears it
GuestRequests ==
  {broadcast(GuestId, [type |-> "join_request", id |-> GuestId])}

InitParty ==
  InitWith(PeerArmySize, [conversions |-> 0, spawns |-> 0, events |-> 0])

NextParty ==
  \/ CreateParty(LocalDraw)
  \/ JoinParty(generatePartyId(RemoteDraw))
  \/ StartMatch
  \/ \E delta \in Deltas : PlacementTick(delta)
  \/ SyncTick
  \/ \E data \in Incoming("join_request") \cup GuestRequests : JoinRequest(data)
  \/ \E data \in Incoming("player_assigned") : PlayerAssigned(data)
  \/ \E data \in Incoming("party_full") : PartyFull(data)
  \/ \E data \in Incoming("player_left") : PlayerLeft(data)
  \/ RemoteCreateParty
  \/ RemoteJoinParty
  \/ RemoteLeaveParty
  \/ RemoteReceive

SpecParty == InitParty /\ [][NextParty]_vars

\* the player_input messages of the other players of a party: a direction on
\* each axis
Axis == {-1, 0, 1}

InputMessages ==
  {[type |-> "player_input", fromId |-> GuestId, playerType |-> t,
    x |-> x, z |-> z] : t \in {"paper", "scissors"}, x \in Axis, z \in Axis}

NextInput ==
  \/ CreateParty(LocalDraw)
  \/ JoinParty(OtherCode)
  \/ \E data \in InputMessages : PlayerInput(data)

SpecInput == InitParty /\ [][NextInput]_vars

\* a peer of a party in a match that receives game_state messages: the
\* coordinates of a message are between 0 and MaxCoord
MaxCoord == 3

\* the entries of data.armies for one faction: no soldier or one, of a known
\* or an unknown id
SyncEntries(type) ==
  {<<type, [soldiers |-> l, isInvincible |-> inv, speedMultiplier |-> sp]>> :
     l \in {<< >>} \cup
            {<<[id |-> id, x |-> x, z |-> z, isLeader |-> TRUE]>> :
               id \in {LeaderId("rock"), UnknownId},
               x \in 0..MaxCoord, z \in 0..MaxCoord},
     inv \in BOOLEAN,
     sp \in {NORMAL_SPEED_X10, SPEED_BOOST_MULTIPLIER_X10}}

\* game_state messages about the Rock army, about a faction that no army has,
\* and about both
SyncMessages ==
  {[type |-> "game_state", fromId |-> GuestId, armies |-> a] :
     a \in {<<e>> : e \in SyncEntries("rock") \cup SyncEntries("unknown")}
           \cup {<<u, e>> : u \in {<<"unknown", [soldiers |-> << >>,
                                                 isInvincible |-> TRUE,
                                                 speedMultiplier |-> NORMAL_SPEED_X10]>>},
                            e \in SyncEntries("rock")}}

NextSync ==
  \/ CreateParty(LocalDraw)
  \/ JoinParty(OtherCode)
  \/ StartMatch
  \/ \E delta \in Deltas : PlacementTick(delta)
  \/ \E data \in SyncMessages : GameStateMessage(data)

SpecSync == InitParty /\ [][NextSync]_vars

\* party codes: createParty() over the values of Math.random(), joinParty()
\* over the codes that the join dialog and an invite can pass.  The digits
\* of a value are drawn from three of the 36, a value has at most MaxDigits
\* of them (substring(2, 8) keeps six) and a code at most MaxEntered
\* characters
MaxDigits == 7
MaxEntered == 4

\* values of Math.random() with the digits 0, i and m
Randoms ==
  {r \in UNION {[1..n -> {0, 18, 22}] : n \in 0..MaxDigits} :
     r = << >> \/ r[Len(r)] # 0}

\* codes of the characters m, M and 7
EnteredCodes == UNION {[1..n -> {"m", "M", "7"}] : n \in 0..MaxEntered}

NextCode ==
  \/ \E r \in Randoms : CreateParty(r)
  \/ \E id \in EnteredCodes : JoinParty(id)

SpecCode == InitParty /\ [][NextCode]_vars

\* a peer that plays solo tests and the matches of a party it joined, with
\* the ticks of both and the messages of a match
ClientConversions == 1
ClientEvents == 1

InitClient ==
  InitWith(PeerArmySize, [conversions |-> ClientConversions, spawns |-> 0,
                          events |-> ClientEvents])

\* the game_state messages about the leader of Rock alone, or about a soldier
\* that no army has
ClientSyncMessages ==
  {m \in SyncMessages :
     /\ Len(m.armies) = 1 /\ m.armies[1][1] = "rock"
     /\ ~m.armies[1][2].isInvincible
     /\ m.armies[1][2].speedMultiplier = NORMAL_SPEED_X10}

NextClient ==
  \/ StartSoloTest
  \/ JoinParty(OtherCode)
  \/ \E data \in AssignedMessages : PlayerAssigned(data)
  \/ StartMatch
  \/ \E delta \in Deltas : PlacementTick(delta)
  \/ HostTick
  \/ ClientTick
  \/ CompleteConversion
  \/ \E data \in ClientSyncMessages : GameStateMessage(data)
  \/ \E id \in MessageIds : \E ft \in MessageConversions :
       ConversionMessage(id, ft[1], ft[2])
  \/ \E w \in MessageTypes : GameOverMessage(w)

SpecClient == InitClient /\ [][NextClient]_vars

(* ---------------------------- Game.getAIInput --------------------------- *)
\* the distance within which getAIInput looks at the soldiers of the faction
\* that beats an army, the distance below which it flees from the nearest
\* of them, and the milliseconds for which a wander direction is kept
THREAT_SCAN_RADIUS == 10
THREAT_RADIUS == 8
WANDER_INTERVAL == 2000

\* the initial value of dangerDistance and preyDistance, squared
Infinity == 1000000

\* Soldier.getPosition() / soldier.mesh.position, on the ground
getPosition(s, o) == [x |-> s[o].x, z |-> s[o].z]

\* a.distanceTo(b), squared
distanceToSq(a, b) == (a.x - b.x) * (a.x - b.x) + (a.z - b.z) * (a.z - b.z)

\* Math.sqrt(v), rounded down: the largest n in lo..hi with n * n <= v
RECURSIVE sqrt(_, _, _)
sqrt(v, lo, hi) ==
  IF lo >= hi THEN lo
  ELSE LET mid == (lo + hi + 1) \div 2
       IN IF mid * mid <= v THEN sqrt(v, mid, hi) ELSE sqrt(v, lo, mid - 1)

\* { x: dx / len, z: dz / len } with len = Math.sqrt(dx * dx + dz * dz) || 1,
\* in thousandths, rounded towards zero
direction(dx, dz) ==
  LET len == sqrt((dx * dx + dz * dz) * 1000000, 0, 20000)
      over(d) == IF d >= 0 THEN (d * 1000000) \div len
                 ELSE -(((-d) * 1000000) \div len)
  IN IF len = 0 THEN [x |-> dx * 1000, z |-> dz * 1000]
     ELSE [x |-> over(dx), z |-> over(dz)]

\* the soldiers that the two armies.forEach loops of getAIInput visit, in
\* their order: the rosters of the other armies that are not empty and that
\* win against type (wins FALSE) or lose against it (wins TRUE)
RECURSIVE visited(_, _, _, _)
visited(arm, type, wins, k) ==
  IF k > Len(SOLDIER_TYPES) THEN << >>
  ELSE LET targetType == SOLDIER_TYPES[k]
           counts == /\ targetType \in DOMAIN arm
                     /\ targetType # type
                     /\ Len(arm[targetType].soldiers) > 0
                     /\ getRPSWinner(type, targetType)
                          = (IF wins THEN type ELSE targetType)
       IN (IF counts THEN arm[targetType].soldiers ELSE << >>)
            \o visited(arm, type, wins, k + 1)

\* the soldiers.forEach of both loops: best is [found, pos, dist], found
\* FALSE for a null position; a soldier replaces best when it is within
\* limit and closer
RECURSIVE closest(_, _, _, _, _, _)
closest(cands, k, s, leaderPos, limit, best) ==
  IF k > Len(cands) THEN best
  ELSE LET dist == distanceToSq(leaderPos, getPosition(s, cands[k]))
       IN closest(cands, k + 1, s, leaderPos, limit,
                  IF dist < limit /\ dist < best.dist
                  THEN [found |-> TRUE, pos |-> getPosition(s, cands[k]),
                        dist |-> dist]
                  ELSE best)

\* Map.set(key, value) on a map kept as a function
mapSet(m, key, value) ==
  [k \in DOMAIN m \cup {key} |-> IF k = key THEN value ELSE m[k]]

\* priority 3 of getAIInput: g is [armies, sold, aiUpdateTimers], now is
\* Date.now() and rnd the direction that the two Math.random() calls give
wander(g, type, now, rnd) ==
  LET pick == \/ type \notin DOMAIN g.aiUpdateTimers
              \/ now - g.aiUpdateTimers[type] > WANDER_INTERVAL
      g1 == IF pick
            THEN [g EXCEPT !.aiUpdateTimers = mapSet(@, type, now),
                           !.armies[type].aiWanderDir = rnd]
            ELSE g
  IN [input |-> g1.armies[type].aiWanderDir, armies |-> g1.armies,
      aiUpdateTimers |-> g1.aiUpdateTimers]

\* getAIInput that looks for prey before it looks for danger
getAIInput_ChaseFirst(g, type, now, rnd) ==
  IF type \notin DOMAIN g.armies \/ g.armies[type].leader = Null
  THEN [input |-> [x |-> 0, z |-> 0], armies |-> g.armies,
        aiUpdateTimers |-> g.aiUpdateTimers]
  ELSE LET leaderPos == getPosition(g.sold, g.armies[type].leader)
           none == [found |-> FALSE, pos |-> [x |-> 0, z |-> 0],
                    dist |-> Infinity]
           danger == closest(visited(g.armies, type, FALSE, 1), 1, g.sold,
                             leaderPos,
                             THREAT_SCAN_RADIUS * THREAT_SCAN_RADIUS, none)
           prey == closest(visited(g.armies, type, TRUE, 1), 1, g.sold,
                           leaderPos, Infinity, none)
       IN IF prey.found
          THEN [input |-> direction(prey.pos.x - leaderPos.x,
                                    prey.pos.z - leaderPos.z),
                armies |-> g.armies, aiUpdateTimers |-> g.aiUpdateTimers]
          ELSE IF danger.found /\ danger.dist < THREAT_RADIUS * THREAT_RADIUS
          THEN [input |-> direction(leaderPos.x - danger.pos.x,
                                    leaderPos.z - danger.pos.z),
                armies |-> g.armies, aiUpdateTimers |-> g.aiUpdateTimers]
          ELSE wander(g, type, now, rnd)

\* Game.getAIInput(type): the vector it returns, and the armies and
\* aiUpdateTimers it leaves
getAIInput(g, type, now, rnd) ==
  IF type \notin DOMAIN g.armies \/ g.armies[type].leader = Null
  THEN [input |-> [x |-> 0, z |-> 0], armies |-> g.armies,
        aiUpdateTimers |-> g.aiUpdateTimers]
  ELSE LET leaderPos == getPosition(g.sold, g.armies[type].leader)
           none == [found |-> FALSE, pos |-> [x |-> 0, z |-> 0],
                    dist |-> Infinity]
           danger == closest(visited(g.armies, type, FALSE, 1), 1, g.sold,
                             leaderPos,
                             THREAT_SCAN_RADIUS * THREAT_SCAN_RADIUS, none)
           prey == closest(visited(g.armies, type, TRUE, 1), 1, g.sold,
                           leaderPos, Infinity, none)
       IN IF danger.found /\ danger.dist < THREAT_RADIUS * THREAT_RADIUS
          THEN [input |-> direction(leaderPos.x - danger.pos.x,
                                    leaderPos.z - danger.pos.z),
                armies |-> g.armies, aiUpdateTimers |-> g.aiUpdateTimers]
          ELSE IF prey.found
          THEN [input |-> direction(prey.pos.x - leaderPos.x,
                                    prey.pos.z - leaderPos.z),
                armies |-> g.armies, aiUpdateTimers |-> g.aiUpdateTimers]
          ELSE wander(g, type, now, rnd)

\* a solo test in Playing whose armies have up to MaxAISize soldiers each,
\* standing on the points of Points; getAIInput is called up to AICalls
\* times, and the time goes up to MaxClock milliseconds
MaxAISize == 2
AICalls == 3
MaxClock == 4002

\* three points, 5 (below THREAT_RADIUS), 9 (between the two radii) and
\* more than 10 apart
Points == <<[x |-> 0, z |-> 0], [x |-> 5, z |-> 0], [x |-> 0, z |-> 9]>>

\* the directions that (Math.random() - 0.5) * 2 gives, in thousandths
WanderDirs == {[x |-> a, z |-> b] : a \in {-1000, 250}, b \in {0, 999}}

\* the soldiers of createSoldiers(type, n[type]), soldier o on the point at[o]
InitAI ==
  \E n \in [Types -> 0..MaxAISize] :
  \E at \in [1..(n["rock"] + n["paper"] + n["scissors"]) -> DOMAIN Points] :
    /\ state = "playing"
    /\ localPlayerType = "rock"
    /\ isSoloTest = TRUE
    /\ armies = [t \in Types |->
                   NewArmy(t, CASE t = "rock" -> 1
                                [] t = "paper" -> n["rock"] + 1
                                [] t = "scissors" -> n["rock"] + n["paper"] + 1,
                           n[t])]
    /\ sold = [o \in DOMAIN at |->
                 [(createSoldiers("rock", n["rock"])
                     \o createSoldiers("paper", n["paper"])
                     \o createSoldiers("scissors", n["scissors"]))[o]
                    EXCEPT !.x = Points[at[o]].x, !.z = Points[at[o]].z]]
    /\ powerUpManager = [exists |-> TRUE, isSpawning |-> TRUE, powerUps |-> << >>]
    /\ conversions = << >>
    /\ timers = {}
    /\ isHost = FALSE
    /\ partyId = "none"
    /\ netPlayerType = "none"
    /\ screens = {}
    /\ shown = NothingShown
    /\ placementTimer = 0
    /\ clock = 0
    /\ perArmy = MaxAISize
    /\ aiUpdateTimers = << >>
    /\ aiInput = << >>
    /\ draggedSoldier = Null
    /\ mirror = NoMirror
    /\ blocked = FALSE
    /\ budget = [conversions |-> 0, spawns |-> 0, events |-> AICalls]
    /\ players = << >>
    /\ remoteInputs = << >>
    /\ syncInterval = FALSE
    /\ sent = << >>
    /\ remote = NoRemote
    /\ wire = NoWire

\* step 2 of Game.updateHost for one army of a solo test that the player
\* does not steer: input = this.getAIInput(type)
GetAIInput(type, rnd) ==
  /\ state = "playing" /\ isSoloTest
  /\ \/ type # localPlayerType
     \/ type \notin DOMAIN armies
     \/ Len(armies[type].soldiers) = 0
  /\ budget.events > 0
  /\ budget' = [budget EXCEPT !.events = @ - 1]
  /\ \E r \in {getAIInput([armies |-> armies, sold |-> sold,
                           aiUpdateTimers |-> aiUpdateTimers],
                          type, clock, rnd)} :
       /\ armies' = r.armies
       /\ aiUpdateTimers' = r.aiUpdateTimers
       /\ aiInput' = mapSet(aiInput, type, r.input)
  /\ sent' = << >>
  /\ UNCHANGED <<state, localPlayerType, isSoloTest, sold, powerUpManager,
                 conversions, timers, isHost, partyId, netPlayerType, screens,
                 shown, placementTimer, clock, perArmy, draggedSoldier, mirror, blocked,
                 players, remoteInputs, syncInterval, remote, wire>>

\* Date.now() is ms milliseconds later
Wait(ms) ==
  /\ clock + ms <= MaxClock
  /\ clock' = clock + ms
  /\ sent' = << >>
  /\ UNCHANGED <<state, localPlayerType, isSoloTest, armies, sold,
                 powerUpManager, conversions, timers, isHost, partyId,
                 netPlayerType, screens, shown, placementTimer, perArmy,
                 aiUpdateTimers, aiInput, draggedSoldier, mirror, blocked, budget, players,
                 remoteInputs, syncInterval, remote, wire>>

NextAI ==
  \/ \E type \in Types : \E rnd \in WanderDirs : GetAIInput(type, rnd)
  \/ \E ms \in {WANDER_INTERVAL, WANDER_INTERVAL + 1} : Wait(ms)

SpecAI == InitAI /\ [][NextAI]_vars

(* ------------------ roster announcements in any order ------------------ *)
\* the host of the party is the other peer: it handles the join_request of a
\* further participant and broadcasts the announcement
GuestJoins ==
  /\ remote.isHost
  /\ getNextAvailableType(remote.players) # "none"
  /\ \E r \in {onJoinRequest(remote, broadcast(GuestId,
                 [type |-> "join_request", id |-> GuestId]))} :
       /\ remote' = r.nm
       /\ RemoteSend(remote.partyId, r.out, wire.toRemote)

\* handleMessage, player_assigned, for the message that is the i-th of those
\* on their way to this peer: a transport that does not keep the order
\* delivers it before the older ones
DeliverAssigned(i) ==
  /\ i \in DOMAIN wire.toLocal
  /\ wire.toLocal[i].type = "player_assigned"
  /\ Handles(wire.toLocal[i]) /\ ~isHost
  /\ \E nm \in {onPlayerAssigned(LocalNM, LocalId, wire.toLocal[i])} :
       /\ netPlayerType' = nm.localPlayerType
       /\ players' = nm.players
  /\ IF wire.toLocal[i].targetId = LocalId
     THEN screens' = {"lobby"} /\ shown' = NothingShown
     ELSE UNCHANGED <<screens, shown>>
  /\ Send(partyId, << >>, RemoveAt(wire.toLocal, i))
  /\ UNCHANGED <<state, localPlayerType, isSoloTest, armies, sold,
                 powerUpManager, conversions, timers, isHost, partyId,
                 placementTimer, clock, perArmy, aiUpdateTimers, aiInput,
                 draggedSoldier, mirror, blocked, budget, remoteInputs, syncInterval,
                 remote>>

\* a peer that joins the party of the other peer, a further participant that
\* joins it too, and the announcements of the host in any order
NextRoster ==
  \/ RemoteCreateParty
  \/ JoinParty(generatePartyId(RemoteDraw))
  \/ RemoteReceive
  \/ GuestJoins
  \/ \E i \in 1..MaxInFlight : DeliverAssigned(i)
  \/ \E data \in Incoming("party_full") : PartyFull(data)

SpecRoster == InitParty /\ [][NextRoster]_vars

(* --------------------- a host and a client in a match ------------------ *)
\* the start of the party match on the other peer (defined nowhere in the
\* program, as for StartMatch), while the host is in Placement:
\* Game.startGame builds the same armies
MirrorStartMatch ==
  /\ inParty /\ remote.partyId = partyId /\ ~remote.isHost
  /\ isHost /\ state = "placement"
  /\ remote.localPlayerType # "none"
  /\ mirror.state \in {"menu", "ended"}
  /\ mirror' = [state |-> "placement",
                armies |-> [t \in Types |->
                              NewArmy(t, (IndexOf(SOLDIER_TYPES, t) - 1) * perArmy + 1,
                                      perArmy)],
                sold |-> createSoldiers("rock", perArmy)
                           \o createSoldiers("paper", perArmy)
                           \o createSoldiers("scissors", perArmy),
                conversions |-> StaleConversions(mirror.conversions)]
  /\ sent' = << >>
  /\ UNCHANGED <<state, localPlayerType, isSoloTest, armies, sold,
                 powerUpManager, conversions, timers, isHost, partyId,
                 netPlayerType, screens, shown, placementTimer, clock, perArmy,
                 aiUpdateTimers, aiInput, draggedSoldier, blocked, budget,
                 players, remoteInputs, syncInterval, remote, wire>>

\* Game.update(delta) in Placement on the other peer, when its timer has run
\* out: startBattle
MirrorStartBattle ==
  /\ mirror.state = "placement"
  /\ mirror' = [mirror EXCEPT !.state = "playing"]
  /\ sent' = << >>
  /\ UNCHANGED <<state, localPlayerType, isSoloTest, armies, sold,
                 powerUpManager, conversions, timers, isHost, partyId,
                 netPlayerType, screens, shown, placementTimer, clock, perArmy,
                 aiUpdateTimers, aiInput, draggedSoldier, blocked, budget,
                 players, remoteInputs, syncInterval, remote, wire>>

\* handleMessage(data) on the other peer for the next message on its way,
\* in the order it was sent: player_assigned, game_state, conversion
MirrorReceive ==
  /\ wire.toRemote # << >>
  /\ \E data \in {Head(wire.toRemote)} :
       CASE data.type = "player_assigned" ->
              /\ remote' = onPlayerAssigned(remote, RemoteId, data)
              /\ UNCHANGED mirror
         [] data.type = "game_state" ->
              /\ \E w \in {handleGameStateSync(
                             [armies |-> mirror.armies, sold |-> mirror.sold],
                             remote.isHost, mirror.state, data)} :
                   mirror' = [mirror EXCEPT !.armies = w.armies, !.sold = w.sold]
              /\ UNCHANGED remote
         [] data.type = "conversion" ->
              /\ mirror' = handleRemoteConversion(mirror, mirror.armies,
                                                  data.soldierId, data.fromType,
                                                  data.toType)
              /\ UNCHANGED remote
         [] OTHER -> UNCHANGED <<remote, mirror>>
  /\ wire' = [wire EXCEPT !.toRemote = Tail(@)]
  /\ sent' = << >>
  /\ UNCHANGED <<state, localPlayerType, isSoloTest, armies, sold,
                 powerUpManager, conversions, timers, isHost, partyId,
                 netPlayerType, screens, shown, placementTimer, clock, perArmy,
                 aiUpdateTimers, aiInput, draggedSoldier, blocked, budget,
                 players, remoteInputs, syncInterval>>

\* the end of the oldest conversion animation on the other peer: the callback
\* of convertSoldier runs and, the peer being in no solo test, reports the
\* conversion to the party
MirrorComplete ==
  /\ Len(mirror.conversions) > 0
  /\ \E cv \in {Head(mirror.conversions)} :
       /\ IF cv.stale
          THEN mirror' = [mirror EXCEPT !.conversions = Tail(@)]
          ELSE \E w \in {completeConversion([armies |-> mirror.armies,
                                             sold |-> mirror.sold], cv)} :
                 mirror' = [mirror EXCEPT !.armies = w.armies, !.sold = w.sold,
                                          !.conversions = Tail(@)]
       /\ wire' = [wire EXCEPT !.toLocal =
                     relay(remote.partyId, partyId, @,
                           <<broadcast(RemoteId,
                               [type |-> "conversion",
                                soldierId |-> IF cv.stale THEN Null
                                              ELSE mirror.sold[cv.soldier].id,
                                fromType |-> cv.from, toType |-> cv.to])>>)]
  /\ Len(wire'.toLocal) <= MaxInFlight
  /\ sent' = << >>
  /\ UNCHANGED <<state, localPlayerType, isSoloTest, armies, sold,
                 powerUpManager, conversions, timers, isHost, partyId,
                 netPlayerType, screens, shown, placementTimer, clock, perArmy,
                 aiUpdateTimers, aiInput, draggedSoldier, blocked, budget,
                 players, remoteInputs, syncInterval, remote>>

\* handleMessage, conversion, for the next message on its way to this peer
IncomingConversion ==
  /\ \E data \in Incoming("conversion") :
       /\ Handles(data)
       /\ \E c \in {handleRemoteConversion(
                      [sold |-> sold, conversions |-> conversions], armies,
                      data.soldierId, data.fromType, data.toType)} :
            /\ Len(c.conversions) - Len(conversions) <= budget.conversions
            /\ sold' = c.sold
            /\ conversions' = c.conversions
            /\ budget' = [budget EXCEPT
                            !.conversions = @ - (Len(c.conversions) - Len(conversions))]
       /\ Send(partyId, << >>, Received(data))
  /\ UNCHANGED <<state, localPlayerType, isSoloTest, armies, powerUpManager,
                 timers, isHost, partyId, netPlayerType, screens, shown,
                 placementTimer, clock, perArmy, aiUpdateTimers, aiInput,
                 draggedSoldier, mirror, blocked, players, remoteInputs,
                 syncInterval, remote>>

MirrorArmySize == 2
MirrorConversions == 1
MirrorSpawns == 1
MirrorEvents == 1

InitMirror ==
  InitWith(MirrorArmySize, [conversions |-> MirrorConversions,
                            spawns |-> MirrorSpawns, events |-> MirrorEvents])

\* this peer hosts a party, the other peer joins it, both play the match;
\* every message is delivered in the order it was sent
NextMirror ==
  \/ CreateParty(LocalDraw)
  \/ RemoteJoinParty
  \/ \E data \in Incoming("join_request") : JoinRequest(data)
  \/ StartMatch
  \/ MirrorStartMatch
  \/ \E delta \in Deltas : PlacementTick(delta)
  \/ MirrorStartBattle
  \/ HostTick
  \/ CompleteConversion
  \/ SyncTick
  \/ MirrorReceive
  \/ MirrorComplete
  \/ IncomingConversion

SpecMirror == InitMirror /\ [][NextMirror]_vars

(* ----------------------- Game: drag in Placement ----------------------- *)
\* coordinates of the arena are kept in thirds of a unit, so that the
\* centres ARENA_WIDTH / 3 of the spawn zones are integers
Third == 3
ARENA_WIDTH == 40
ARENA_HEIGHT == 24
ZONE_WIDTH == 10
ZONE_HEIGHT == 8
NEUTRAL_SIZE == 8
DRAG_MARGIN == 1

\* Arena.createSpawnZones(): this.spawnZones
spawnZones ==
  [t \in Types |->
     [x |-> CASE t = "rock" -> -((ARENA_WIDTH * Third) \div 3)
              [] t = "paper" -> (ARENA_WIDTH * Third) \div 3
              [] OTHER -> 0,
      z |-> IF t = "scissors"
            THEN -((ARENA_HEIGHT * Third) \div 3) + Third
            ELSE (ARENA_HEIGHT * Third) \div 3 - Third,
      width |-> ZONE_WIDTH * Third,
      height |-> ZONE_HEIGHT * Third]]

\* Arena.createSpawnZones(): this.neutralZone
neutralZone ==
  [x |-> 0, z |-> 0, width |-> NEUTRAL_SIZE * Third, height |-> NEUTRAL_SIZE * Third]

\* Arena.getSpawnZone(type)
getSpawnZone(type) == spawnZones[type]

\* the rectangle test of isInNeutralZone and isInSpawnZone, borders included
inZone(zone, x, z) ==
  /\ x >= zone.x - zone.width \div 2
  /\ x <= zone.x + zone.width \div 2
  /\ z >= zone.z - zone.height \div 2
  /\ z <= zone.z + zone.height \div 2

\* Arena.isInNeutralZone(x, z)
isInNeutralZone(x, z) == inZone(neutralZone, x, z)

\* Arena.isInSpawnZone(x, z, type)
isInSpawnZone(x, z, type) == inZone(spawnZones[type], x, z)

\* Math.max(lo, Math.min(hi, v))
clamp(lo, hi, v) == IF v > hi THEN (IF hi < lo THEN lo ELSE hi)
                    ELSE IF v < lo THEN lo ELSE v

\* the point onMouseMove puts a soldier of faction type on when the ray meets
\* the ground at (tx, tz): the target, held one unit inside the spawn zone
dragPoint(type, tx, tz) ==
  [x |-> clamp(getSpawnZone(type).x - getSpawnZone(type).width \div 2
                 + DRAG_MARGIN * Third,
               getSpawnZone(type).x + getSpawnZone(type).width \div 2
                 - DRAG_MARGIN * Third, tx),
   z |-> clamp(getSpawnZone(type).z - getSpawnZone(type).height \div 2
                 + DRAG_MARGIN * Third,
               getSpawnZone(type).z + getSpawnZone(type).height \div 2
                 - DRAG_MARGIN * Third, tz)]

\* Game.onMouseDown(e) and onTouchStart: hit is the soldier of the local army
\* whose mesh the ray meets first, Null when it meets none
MouseDown(hit) ==
  /\ IF state # "placement" \/ localPlayerType \notin DOMAIN armies
     THEN UNCHANGED <<sold, draggedSoldier, mirror>>
     ELSE /\ hit \in Range(armies[localPlayerType].soldiers) \cup {Null}
          /\ IF hit = Null THEN UNCHANGED <<sold, draggedSoldier, mirror>>
             ELSE /\ draggedSoldier' = hit
                  /\ sold' = [sold EXCEPT ![hit].isDragging = TRUE]
  /\ sent' = << >>
  /\ UNCHANGED <<state, localPlayerType, isSoloTest, armies, powerUpManager,
                 conversions, timers, isHost, partyId, netPlayerType, screens,
                 shown, placementTimer, clock, perArmy, aiUpdateTimers,
                 aiInput, mirror, blocked, budget, players, remoteInputs,
                 syncInterval, remote, wire>>

\* Game.onMouseMove(e) and onTouchMove: the ray meets the ground at (tx, tz).
\* A reference to the soldier of a destroyed match is written through as
\* well; that object is no soldier of the game any more
MouseMove(tx, tz) ==
  /\ IF draggedSoldier = Null \/ state # "placement"
     THEN UNCHANGED sold
     ELSE \E p \in {dragPoint(localPlayerType, tx, tz)} :
            IF ~isInNeutralZone(p.x, p.z) /\ draggedSoldier # Discarded
            THEN sold' = [sold EXCEPT ![draggedSoldier].x = p.x,
                                      ![draggedSoldier].z = p.z]
            ELSE UNCHANGED sold
  /\ sent' = << >>
  /\ UNCHANGED <<state, localPlayerType, isSoloTest, armies, powerUpManager,
                 conversions, timers, isHost, partyId, netPlayerType, screens,
                 shown, placementTimer, clock, perArmy, aiUpdateTimers,
                 aiInput, draggedSoldier, mirror, blocked, budget, players,
                 remoteInputs, syncInterval, remote, wire>>

\* Game.onMouseUp(e) and onTouchEnd
MouseUp ==
  /\ IF draggedSoldier = Null THEN UNCHANGED <<sold, draggedSoldier, mirror>>
     ELSE /\ sold' = IF draggedSoldier = Discarded THEN sold
                     ELSE [sold EXCEPT ![draggedSoldier].isDragging = FALSE]
          /\ draggedSoldier' = Null
  /\ sent' = << >>
  /\ UNCHANGED <<state, localPlayerType, isSoloTest, armies, powerUpManager,
                 conversions, timers, isHost, partyId, netPlayerType, screens,
                 shown, placementTimer, clock, perArmy, aiUpdateTimers,
                 aiInput, mirror, blocked, budget, players, remoteInputs,
                 syncInterval, remote, wire>>

\* the points of the ground that a ray is drawn to: the centres of the three
\* spawn zones and of the neutral zone, and points beside them
TargetXs == {-40, 0, 40}
TargetZs == {-21, 0, 21}

DragArmySize == 1
DragConversions == 1

InitDrag ==
  InitWith(DragArmySize, [conversions |-> DragConversions, spawns |-> 0,
                          events |-> 0])

\* a peer in the Placement of solo tests and of the matches of a party it
\* joined, its mouse, and the conversions that other peers report meanwhile
NextDrag ==
  \/ StartSoloTest
  \/ JoinParty(OtherCode)
  \/ \E data \in AssignedMessages : PlayerAssigned(data)
  \/ StartMatch
  \/ HandleHostDisconnect
  \/ \E delta \in Deltas : PlacementTick(delta)
  \/ \E hit \in DOMAIN sold \cup {Null} : MouseDown(hit)
  \/ \E tx \in TargetXs : \E tz \in TargetZs : MouseMove(tx, tz)
  \/ MouseUp
  \/ \E id \in MessageIds : \E ft \in MessageConversions :
       ConversionMessage(id, ft[1], ft[2])
  \/ CompleteConversion

SpecDrag == InitDrag /\ [][NextDrag]_vars

(* -------------------------------- claims ------------------------------- *)
\* C1: Game.state changes only along Menu -> Placement, Placement -> Playing,
\* Playing -> Ended, Ended -> Menu and Ended -> Placement, whichever operation
\* changes it (startGame, startSoloTest, startBattle, endGame from
\* checkWinCondition or from a game_over message, reset, handleHostDisconnect).
C1_OnlyPhaseEdges ==
  [][state' # state =>
       <<state, state'>> \in {<<"menu", "placement">>, <<"placement", "playing">>,
                              <<"playing", "ended">>, <<"ended", "menu">>,
                              <<"ended", "placement">>}]_vars

\* C2: on the host or in solo test, a Playing tick ends the match if and only
\* if exactly one army has soldiers when checkWinCondition runs, and the
\* winner it declares is that army's faction; otherwise the state stays
\* Playing.
C2_WinIffOneArmyLeft ==
  [][HostTick =>
       /\ state' = "ended" <=> Cardinality(activeArmies(armies')) = 1
       /\ state' = "ended" => activeArmies(armies') = {shown'.winner}
       /\ state' # "ended" => state' = "playing"]_vars

\* a solo test that its own tick has ended, with the winner on the screen
C2_Witness ==
  /\ isSoloTest /\ ~inParty
  /\ state = "ended"
  /\ shown.winner \in Types
  /\ activeArmies(armies) = {shown.winner}

\* C3: every army with soldiers has exactly one soldier whose isLeader is
\* true.
C3_OneLeaderFlag ==
  \A t \in DOMAIN armies :
    Len(armies[t].soldiers) > 0 =>
      Cardinality({o \in Range(armies[t].soldiers) : sold[o].isLeader}) = 1

\* C4: no army with soldiers has a leader that is null or that is not in its
\* roster.
C4_LeaderInRoster ==
  \A t \in DOMAIN armies :
    Len(armies[t].soldiers) > 0 =>
      armies[t].leader # Null /\ armies[t].leader \in Range(armies[t].soldiers)

\* C5: at most one conversion callback is pending for any soldier.
C5_OnePendingConversion ==
  \A o \in DOMAIN sold :
    Cardinality({k \in DOMAIN conversions :
                   ~conversions[k].stale /\ conversions[k].soldier = o}) <= 1

\* C6: the soldier that loses a collision is marked isConverting, and when its
\* conversion completes it is in the winner's roster and not in the loser's,
\* has the winner's type, its id unchanged and isConverting false, the
\* winner's count one higher and the loser's one lower.
C6_ConversionMovesTheLoser ==
  [][/\ HostTick =>
          \A k \in (Len(conversions) + 1)..Len(conversions') :
            sold'[conversions'[k].soldier].isConverting
     /\ (Len(conversions) > 0 /\ ~Head(conversions).stale /\ CompleteConversion) =>
          LET cv == Head(conversions)
              o == cv.soldier
          IN /\ o \in Range(armies'[cv.to].soldiers)
             /\ o \notin Range(armies'[cv.from].soldiers)
             /\ sold'[o].type = cv.to
             /\ sold'[o].id = sold[o].id
             /\ ~sold'[o].isConverting
             /\ Len(armies'[cv.to].soldiers) = Len(armies[cv.to].soldiers) + 1
             /\ Len(armies'[cv.from].soldiers) = Len(armies[cv.from].soldiers) - 1
    ]_vars

\* C7: while either army of a colliding pair is invincible, handleCollision
\* marks no soldier isConverting and schedules no conversion callback: every
\* conversion that a step of a Playing match schedules on the host or in solo
\* test is between two armies that are not invincible, and every soldier such
\* a step marks has such a conversion.
C7_InvincibleBlocksConversion ==
  [][(state = "playing" /\ isHostOrSolo /\ state' \in {"playing", "ended"}) =>
       LET new == (Len(conversions) + 1)..Len(conversions')
       IN /\ \A k \in new :
               /\ ~armies[conversions'[k].from].isInvincible
               /\ ~armies[conversions'[k].to].isInvincible
          /\ \A o \in DOMAIN sold :
               (sold'[o].isConverting /\ ~sold[o].isConverting) =>
                 \E k \in new : conversions'[k].soldier = o]_vars

\* a tick in which handleCollision met an invincible army
C7_Witness ==
  /\ blocked
  /\ \E t \in DOMAIN armies : armies[t].isInvincible

\* C8: while an army is invincible no soldier leaves its roster, whether the
\* conversion started before the flag was set or comes from a message.
C8_InvincibleKeepsRoster ==
  [][~(state' = "placement" /\ state # "placement") =>
       \A t \in DOMAIN armies \cap DOMAIN armies' :
         armies[t].isInvincible =>
           Range(armies[t].soldiers) \subseteq Range(armies'[t].soldiers)]_vars

\* C9: every collection of a timed power-up keeps its effect active for the
\* full duration counted from that collection, also when the power-up is
\* collected again before an earlier duration has run out: while the duration
\* of any collection is still running, the effect is on.
C9_EffectLastsFullDuration ==
  \A t \in timers :
    (~t.stale /\ t.remaining > 0) =>
      LET army == armies[t.army]
      IN CASE t.kind = "speed_boost" -> army.speedMultiplier # NORMAL_SPEED_X10
           [] t.kind = "invincibility" -> army.isInvincible
           [] t.kind = "reverse_control" -> army.isReversed
           [] t.kind = "magnet_aura" -> army.magnetActive

\* C10: reinforceSoldiers(count) on an army of n <= maxSoldiers soldiers leaves
\* min(n + count, maxSoldiers) of them; it never removes a soldier, never
\* takes the army above maxSoldiers, and leaves an army that is above
\* maxSoldiers as it is.
C10_ReinforceUpToMax ==
  [][\A t \in Types : \A count \in 0..MaxCount :
       Reinforce(t, count) =>
         LET n == Len(armies[t].soldiers)
             after == armies'[t].soldiers
             max == armies[t].maxSoldiers
         IN /\ n <= max => Len(after) = Min(n + count, max)
            /\ n <= max => Len(after) <= max
            /\ n > max => after = armies[t].soldiers
            /\ Len(after) >= n /\ SubSeq(after, 1, n) = armies[t].soldiers]_vars

\* an army that two reinforcement soldiers have filled up to maxSoldiers
C10_Witness ==
  \E t \in Types :
    LET roster == armies[t].soldiers
    IN /\ Len(roster) = SOLDIERS_PER_ARMY
       /\ armies[t].maxSoldiers = SOLDIERS_PER_ARMY
       /\ sold[roster[Len(roster)]].id[2] = "R"
       /\ sold[roster[Len(roster) - 1]].id[2] = "R"

\* C11: on a join_request the host assigns the first faction that is absent
\* from its roster in the order Paper, Scissors, never Rock, records the
\* requester under it as connected and announces the assignment to the
\* requester with the full roster; when both are taken it changes no roster
\* entry and replies party_full to the requester; a peer that is not the host
\* changes nothing and sends nothing.
C11_JoinRequestAssignsNextFaction ==
  [][\A data \in Incoming("join_request") \cup GuestRequests :
       JoinRequest(data) =>
         LET taken == {players[i][1] : i \in DOMAIN players}
             next == IF "paper" \notin taken THEN "paper" ELSE "scissors"
         IN IF ~isHost THEN players' = players /\ sent' = << >>
            ELSE IF {"paper", "scissors"} \subseteq taken
            THEN /\ players' = players
                 /\ Len(sent') = 1
                 /\ sent'[1].type = "party_full"
                 /\ sent'[1].targetId = data.id
            ELSE /\ next # "rock"
                 /\ players' = Append(players, <<next, [id |-> data.id,
                                                        connected |-> TRUE]>>)
                 /\ Len(sent') = 1
                 /\ sent'[1].type = "player_assigned"
                 /\ sent'[1].targetId = data.id
                 /\ sent'[1].playerType = next
                 /\ sent'[1].players =
                      [i \in DOMAIN players' |->
                         [type |-> players'[i][1], id |-> players'[i][2].id,
                          connected |-> players'[i][2].connected]]]_vars

\* a host whose roster is full has just refused a request
C11_Witness ==
  /\ isHost
  /\ {players[i][1] : i \in DOMAIN players} = Types
  /\ Len(sent) = 1
  /\ sent[1].type = "party_full"

\* the roster of a party of a host and one joiner
HostAndJoiner(host, joiner) ==
  {<<"rock", [id |-> host, connected |-> TRUE]>>,
   <<"paper", [id |-> joiner, connected |-> TRUE]>>}

\* the host hv of a party that hid created has taken in the peer jid once,
\* jv is in that party, and nothing is on its way
JoinedOnce(hv, hid, jv, jid) ==
  /\ hv.isHost /\ hv.partyId # "none"
  /\ jv.partyId = hv.partyId /\ ~jv.isHost
  /\ wire = NoWire
  /\ {hv.players[i][2].id : i \in DOMAIN hv.players} = {hid, jid}
  /\ Cardinality({i \in DOMAIN hv.players : hv.players[i][2].id = jid}) = 1

\* C12: after a host creates a party, one peer joins it and player_assigned
\* is delivered, the joiner's localPlayerType is Paper and the rosters of both
\* peers are the same: Rock the host, connected, Paper the joiner, connected,
\* and no Scissors. Either peer can be the host.
C12_JoinerGetsPaper ==
  /\ JoinedOnce(LocalNM, LocalId, remote, RemoteId) =>
       /\ remote.localPlayerType = "paper"
       /\ Range(players) = HostAndJoiner(LocalId, RemoteId) /\ Len(players) = 2
       /\ remote.players = players
  /\ JoinedOnce(remote, RemoteId, LocalNM, LocalId) =>
       /\ netPlayerType = "paper"
       /\ Range(remote.players) = HostAndJoiner(RemoteId, LocalId)
       /\ Len(remote.players) = 2
       /\ players = remote.players

\* the other peer has joined the party of this peer, has its assignment, and
\* nothing is on its way
C12_Witness ==
  /\ JoinedOnce(LocalNM, LocalId, remote, RemoteId)
  /\ remote.localPlayerType = "paper"
  /\ remote.players = players

\* C13: on the host a player_input message sets remoteInputs[faction] to
\* exactly the (x, z) of the message, the last message of a faction winning
\* and the input of the other factions staying; getPlayerInput returns that
\* input, and (0, 0) for a faction that has sent none; on a peer that is not
\* the host the message leaves remoteInputs unchanged.
C13_HostKeepsLastInput ==
  [][\A data \in InputMessages :
       PlayerInput(data) =>
         /\ isHost =>
              /\ DOMAIN remoteInputs' = DOMAIN remoteInputs \cup {data.playerType}
              /\ remoteInputs'[data.playerType] = <<data.x, data.z>>
              /\ \A t \in DOMAIN remoteInputs \ {data.playerType} :
                   remoteInputs'[t] = remoteInputs[t]
              /\ getPlayerInput(remoteInputs', data.playerType) = <<data.x, data.z>>
         /\ ~isHost => remoteInputs' = remoteInputs
         /\ \A t \in Types \ DOMAIN remoteInputs' :
              getPlayerInput(remoteInputs', t) = <<0, 0>>]_vars

\* a host that has the input of Paper, overwritten at least once or not, and
\* none of Scissors
C13_Witness ==
  /\ isHost
  /\ DOMAIN remoteInputs = {"paper"}
  /\ remoteInputs["paper"] = <<1, -1>>
  /\ getPlayerInput(remoteInputs, "scissors") = <<0, 0>>

\* C14: a peer whose isHost is true changes no soldier position and no army
\* flag when it receives game_state, and a peer that is not the host applies
\* the message only while its own game is Playing: no step that changes a
\* soldier or an army on a host, or outside Playing, is the handling of a
\* game_state message.
C14_HostIgnoresGameState ==
  [][((isHost \/ state # "playing") /\ (armies' # armies \/ sold' # sold)) =>
       ~\E data \in SyncMessages : GameStateMessage(data)]_vars

\* a peer that is not the host, in a Playing match, has applied a game_state
\* message to its Rock army
C14_Witness ==
  /\ ~isHost /\ inParty /\ state = "playing"
  /\ armies["rock"].isInvincible
  /\ sold[armies["rock"].leader].x > 0

Dist(a, b) == IF a >= b THEN a - b ELSE b - a

Between(a, n, b) == (a <= n /\ n <= b) \/ (b <= n /\ n <= a)

\* what handleGameStateSync makes of the messages a peer that is not the host
\* can receive in a Playing match: a record for each coordinate of every
\* soldier that a message names and the roster has, with its local value, the
\* value of the message and the value the handler leaves
SyncMoves ==
  IF inParty /\ ~isHost /\ state = "playing"
  THEN UNION {
         LET w == handleGameStateSync([armies |-> armies, sold |-> sold],
                                      isHost, state, data)
         IN UNION {
              LET type == data.armies[k][1]
                  armyData == data.armies[k][2]
              IN IF type \notin DOMAIN armies THEN {}
                 ELSE UNION {
                        UNION {
                          IF sold[o].id # armyData.soldiers[j].id THEN {}
                          ELSE {[local |-> sold[o].x,
                                 server |-> armyData.soldiers[j].x,
                                 new |-> w.sold[o].x],
                                [local |-> sold[o].z,
                                 server |-> armyData.soldiers[j].z,
                                 new |-> w.sold[o].z]}
                          : o \in Range(armies[type].soldiers)}
                        : j \in DOMAIN armyData.soldiers}
              : k \in DOMAIN data.armies}
         : data \in SyncMessages}
  ELSE {}

\* the flags of every army that a message names are those of the message
\* once handleGameStateSync has handled it
SyncFlags ==
  (inParty /\ ~isHost /\ state = "playing") =>
    \A data \in SyncMessages :
      LET w == handleGameStateSync([armies |-> armies, sold |-> sold],
                                   isHost, state, data)
      IN \A k \in DOMAIN data.armies :
           LET type == data.armies[k][1]
               armyData == data.armies[k][2]
           IN type \in DOMAIN armies =>
                /\ w.armies[type].isInvincible = armyData.isInvincible
                /\ w.armies[type].speedMultiplier = armyData.speedMultiplier

\* C15 as the specification states it: a game_state message moves each
\* coordinate of a matched soldier to local + (server - local) * 0.5, between
\* the old local value and the server value and never past it, every
\* non-zero distance to the server value strictly decreasing, and sets
\* isInvincible and speedMultiplier to the values of the message.
C15_EveryDistanceDecreases ==
  /\ SyncFlags
  /\ \A m \in SyncMoves :
       /\ Between(m.local, m.new, m.server)
       /\ m.local # m.server => Dist(m.new, m.server) < Dist(m.local, m.server)

\* C15, amended: the new coordinate is between the old local value and the
\* server value, never past it and never further from it; a distance of more
\* than one step of the coordinate's precision strictly decreases, to half of
\* it up to the rounding of the result; a distance of one step either closes
\* or stays (the half is not a coordinate, and the result is rounded to the
\* neighbour with the even last digit); isInvincible and speedMultiplier
\* become the values of the message.
C15_DistanceHalvesUpToRounding ==
  /\ SyncFlags
  /\ \A m \in SyncMoves :
       /\ Between(m.local, m.new, m.server)
       /\ Dist(m.new, m.server) <= Dist(m.local, m.server)
       /\ Dist(m.local, m.server) > 1 => Dist(m.new, m.server) < Dist(m.local, m.server)
       /\ 2 * Dist(m.new, m.server) <= Dist(m.local, m.server) + 1
       /\ 2 * Dist(m.new, m.server) >= Dist(m.local, m.server) - 1

\* a peer that is not the host, in a Playing match, whose Rock leader a message
\* has moved: it is one step away from a coordinate that a message can name,
\* and a message with that coordinate leaves it there
C15_Witness ==
  /\ inParty /\ ~isHost /\ state = "playing"
  /\ sold[armies["rock"].leader].x > 0
  /\ \E server \in 0..MaxCoord :
       /\ Dist(sold[armies["rock"].leader].x, server) = 1
       /\ lerp(sold[armies["rock"].leader].x, server)
            = sold[armies["rock"].leader].x

\* C16: a conversion message for a soldier that is in the local roster of
\* fromFaction and is not converting is applied directly, without the
\* animation delay: when the handler returns the soldier is in the roster of
\* toFaction, not in that of fromFaction, and has the type toFaction.
C16_RemoteConversionIsImmediate ==
  [][\A id \in MessageIds : \A ft \in MessageConversions :
       (/\ ft[1] \in DOMAIN armies /\ ft[2] \in DOMAIN armies
        /\ ConversionMessage(id, ft[1], ft[2])) =>
         \A o \in Range(armies[ft[1]].soldiers) :
           (sold[o].id = id /\ ~sold[o].isConverting) =>
             /\ o \in Range(armies'[ft[2]].soldiers)
             /\ o \notin Range(armies'[ft[1]].soldiers)
             /\ sold'[o].type = ft[2]]_vars

\* what a message handler can change of the game and of the party
handled ==
  <<state, localPlayerType, isSoloTest, armies, sold, powerUpManager,
    conversions, timers, isHost, partyId, netPlayerType, screens, shown,
    placementTimer, players, remoteInputs, syncInterval>>

\* C17: a handler that is given a soldier id or a faction that is not present
\* locally changes no state (and so does not throw half-way): a conversion
\* that names an unknown faction, a soldier id that the roster of fromFaction
\* does not have or a soldier that is converting; a game_state that names
\* only unknown factions and soldier ids; a game_over whose winner has no
\* army locally.
C17_UnknownReferencesAreIgnored ==
  [][/\ \A w \in MessageTypes :
          (w \notin DOMAIN armies /\ GameOverMessage(w)) => UNCHANGED handled
     /\ \A id \in MessageIds : \A ft \in MessageConversions :
          (/\ \/ ft[1] \notin DOMAIN armies
              \/ ft[2] \notin DOMAIN armies
              \/ \A o \in Range(armies[ft[1]].soldiers) :
                   sold[o].id # id \/ sold[o].isConverting
           /\ ConversionMessage(id, ft[1], ft[2])) => UNCHANGED handled
     /\ \A data \in SyncMessages :
          (/\ \A k \in DOMAIN data.armies :
                \/ data.armies[k][1] \notin DOMAIN armies
                \/ /\ \A j \in DOMAIN data.armies[k][2].soldiers :
                         \A o \in DOMAIN sold :
                           sold[o].id # data.armies[k][2].soldiers[j].id
                   /\ data.armies[k][1] \in DOMAIN armies
                   /\ data.armies[k][2].isInvincible
                        = armies[data.armies[k][1]].isInvincible
                   /\ data.armies[k][2].speedMultiplier
                        = armies[data.armies[k][1]].speedMultiplier
           /\ GameStateMessage(data)) => UNCHANGED handled]_vars

\* C18: when the host leaves the party during a match, every remaining
\* client leaves the party and resets its game to Menu. The only thing a
\* client learns of it is the player_left message of the host, so that the
\* step that handles it in Placement or Playing ends in Menu, out of the
\* party.
C18_ClientsFollowTheHostOut ==
  [][\A data \in Incoming("player_left") :
       (/\ ~isHost /\ state \in {"placement", "playing"}
        /\ \E i \in DOMAIN players :
             players[i][1] = "rock" /\ players[i][2].id = data.fromId
        /\ PlayerLeft(data)) =>
         state' = "menu" /\ partyId' = "none"]_vars

\* C19: when the match of the host ends with the winner W, the host sends
\* game_over {winner: W}, and a client that receives it enters Ended with the
\* winner W.
C19_HostAnnouncesTheWinner ==
  [][/\ (/\ state = "playing" /\ state' = "ended"
          /\ isHost /\ inParty /\ ~isSoloTest
          /\ HostTick) =>
          \E k \in DOMAIN sent' :
            sent'[k].type = "game_over" /\ sent'[k].winner = shown'.winner
     /\ \A w \in Types :
          (/\ state = "playing" /\ ~isHost /\ inParty /\ ~isSoloTest
           /\ GameOverMessage(w)) =>
            state' = "ended" /\ shown'.winner = w]_vars

\* C20: a peer whose isHost is false never sends a game_state message,
\* whatever createParty, joinParty and leaveParty calls came before.
C20_OnlyTheHostSendsGameState ==
  ~isHost => \A k \in DOMAIN sent : sent[k].type # "game_state"

\* C21: after reset() or a new startGame(), a callback that was scheduled
\* during the previous match (the end of a conversion animation, the expiry
\* of a power-up effect) changes no army and no soldier of the game and
\* sends no network message when it runs.
C21_StaleCallbacksDoNothing ==
  [][/\ (/\ Len(conversions) > 0
         /\ Head(conversions).stale
         /\ CompleteConversion) =>
          (sent' = << >> /\ UNCHANGED <<armies, sold>>)
     /\ (/\ \E t \in timers : t.stale /\ timers' = timers \ {t}
         /\ FireTimer) =>
          (sent' = << >> /\ UNCHANGED <<armies, sold>>)]_vars

\* C22: the id of a soldier never changes after its construction: in every
\* step of a match (one that neither starts a new match nor resets the game,
\* which replace the soldiers) each soldier is still there with the id it
\* had, whatever changeType calls, moves between armies and promotions to
\* leader the step makes.
C22_IdNeverChanges ==
  [][(/\ ~(state' = "placement" /\ state # "placement")
      /\ ~(state' = "menu" /\ state # "menu")) =>
       \A o \in DOMAIN sold :
         o \in DOMAIN sold' /\ sold'[o].id = sold[o].id]_vars

\* a soldier that was built as a regular soldier of one faction and is now
\* the leader of another: it was converted, then promoted
C22_Witness ==
  \E o \in DOMAIN sold :
    /\ sold[o].id[2] = "S"
    /\ sold[o].type # sold[o].id[1]
    /\ sold[o].isLeader
    /\ \E t \in DOMAIN armies : armies[t].leader = o /\ t = sold[o].type

\* C23: getRPSWinner is symmetric, gives null exactly for two equal
\* factions, and for two different factions gives the one of them that wins by
\* Rock beats Scissors, Scissors beats Paper, Paper beats Rock, so that each
\* faction beats exactly one other faction and loses to exactly one; every
\* conversion that a collision of the match has started is of the loser of
\* getRPSWinner to its winner.
C23_RPSWinnerIsACycle ==
  /\ \A a \in Types : \A b \in Types :
       /\ getRPSWinner(a, b) = getRPSWinner(b, a)
       /\ getRPSWinner(a, b) = "none" <=> a = b
       /\ a # b => getRPSWinner(a, b) \in {a, b}
  /\ getRPSWinner("rock", "scissors") = "rock"
  /\ getRPSWinner("scissors", "paper") = "scissors"
  /\ getRPSWinner("paper", "rock") = "paper"
  /\ \A a \in Types :
       /\ Cardinality({b \in Types : b # a /\ getRPSWinner(a, b) = a}) = 1
       /\ Cardinality({b \in Types : b # a /\ getRPSWinner(a, b) = b}) = 1
  /\ \A k \in DOMAIN conversions :
       ~conversions[k].stale =>
         /\ getRPSWinner(conversions[k].from, conversions[k].to) = conversions[k].to
         /\ getRPSWinner(conversions[k].to, conversions[k].from) = conversions[k].to

\* a tick in which two collisions were decided, each by another rule of the
\* cycle
C23_Witness ==
  /\ Len(conversions) >= 2
  /\ ~conversions[1].stale /\ ~conversions[2].stale
  /\ conversions[1].to # conversions[2].to

\* C24: every party id that createParty produces is a string of exactly 6
\* characters, all of them from the unambiguous upper-case alphabet (no 0,
\* O, 1, I), and joinParty stores the entered code converted to upper case:
\* of the same length, every lower-case letter replaced by its capital and
\* every other character kept.
C24_PartyCodeFormat ==
  [][/\ \A r \in Randoms :
          CreateParty(r) =>
            /\ Len(partyId') = 6
            /\ partyId' = String(generatePartyId(r))
            /\ \A i \in DOMAIN generatePartyId(r) :
                 generatePartyId(r)[i] \in Unambiguous
     /\ \A id \in EnteredCodes :
          JoinParty(id) =>
            \E u \in {toUpperCase(id)} :
              /\ partyId' = String(u)
              /\ Len(u) = Len(id)
              /\ \A i \in DOMAIN id :
                   /\ u[i] \notin Range(SubSeq(Digits36, 11, 36))
                   /\ id[i] \notin Range(SubSeq(Digits36, 11, 36)) => u[i] = id[i]
                   /\ id[i] \in Range(SubSeq(Digits36, 11, 36)) =>
                        IndexOf(Upper36, u[i]) = IndexOf(Digits36, id[i])]_vars

\* C25: a game goes from Placement to Playing only inside an updatePlacement
\* tick in which placementTimer, set to PLACEMENT_TIME by startGame and
\* decreased by the delta of each tick, has reached a value <= 0; no ready
\* signal, network message or user input takes it there earlier, and none of
\* them changes the timer.
C25_BattleStartsWhenTimerRunsOut ==
  [][/\ (state = "placement" /\ state' = "playing") =>
          /\ placementTimer' <= 0
          /\ \E delta \in Deltas :
               placementTimer' = placementTimer - delta /\ PlacementTick(delta)
     /\ (state # "placement" /\ state' = "placement") =>
          placementTimer' = PLACEMENT_TIME
     /\ (state = "placement" /\ placementTimer' # placementTimer) =>
          \E delta \in Deltas : PlacementTick(delta)]_vars

\* a peer of a party whose battle has begun in the tick that brought the
\* timer to 0
C25_Witness ==
  /\ state = "playing" /\ inParty /\ ~isSoloTest
  /\ placementTimer = 0

PowerUpTicks ==
  IF state = "playing" /\ isHostOrSolo /\ powerUpManager.isSpawning
  THEN UNION {
         {[listed |-> IF in.spawn = "none" THEN powerUpManager.powerUps
                      ELSE Append(powerUpManager.powerUps,
                                  [type |-> in.spawn, isCollected |-> FALSE]),
           picks |-> picks,
           rev |-> in.rev,
           q |-> updatePowerUps([armies |-> armies, sold |-> sold,
                                 timers |-> timers, aborted |-> FALSE,
                                 powerUps |-> powerUpManager.powerUps,
                                 isSpawning |-> powerUpManager.isSpawning],
                                in.spawn, picks, in.rev, clock)] :
            picks \in PickInputs(in)} :
         in \in {i \in TickInputs : i.near = {}}}
  ELSE {}

\* C27: each power-up is collected at most once, and its effect is applied
\* for exactly one army, the first one in the iteration order of Game.armies
\* that has a soldier within the pickup radius in that tick; later soldiers
\* and armies of the tick do not collect it, a power-up that nobody touches
\* has no effect and stays, and a collected power-up is no longer in
\* PowerUpManager.powerUps when the update of that tick returns.
C27_FirstArmyCollectsOnce ==
  \A u \in PowerUpTicks :
    LET touched == {i \in DOMAIN u.listed : u.picks[i] # {}}
        start == [armies |-> armies, sold |-> sold, timers |-> timers,
                  aborted |-> FALSE, powerUps |-> u.listed,
                  isSpawning |-> TRUE]
    IN /\ touched = {} =>
            /\ u.q.armies = armies /\ u.q.sold = sold /\ u.q.timers = timers
            /\ u.q.powerUps = u.listed
       /\ \A i \in touched :
            LET first == SOLDIER_TYPES[
                           CHOOSE a \in 1..3 :
                             /\ SOLDIER_TYPES[a] \in u.picks[i]
                             /\ \A b \in 1..(a - 1) :
                                  SOLDIER_TYPES[b] \notin u.picks[i]]
                once == applyPowerUp(start, u.listed[i].type, first, u.rev, clock)
            IN /\ touched = {i} =>
                    /\ u.q.armies = once.armies
                    /\ u.q.sold = once.sold
                    /\ u.q.timers = once.timers
               /\ ~u.q.aborted =>
                    /\ Len(u.q.powerUps) = Len(u.listed) - Cardinality(touched)
                    /\ \A j \in DOMAIN u.q.powerUps : ~u.q.powerUps[j].isCollected

\* an invincibility power-up has been collected: Paper alone is invincible
\* and no power-up is left on the arena
C27_Witness ==
  /\ state = "playing" /\ isHostOrSolo
  /\ armies["paper"].isInvincible
  /\ ~armies["rock"].isInvincible /\ ~armies["scissors"].isInvincible
  /\ powerUpManager.powerUps = << >>

\* C28: power-ups are in PowerUpManager.powerUps only while the game is in
\* Playing, and are spawned only by a step of the host or of a solo test in
\* Playing: the list is empty and the spawning off in Menu, in Placement and
\* in Ended, and a step that starts outside Playing spawns no power-up and
\* applies none (it adds no soldier, starts no effect timer and turns no
\* effect of an army on).
C28_PowerUpsOnlyWhilePlaying ==
  [][/\ powerUpManager.powerUps # << >> => state = "playing"
     /\ Len(powerUpManager'.powerUps) > Len(powerUpManager.powerUps) =>
          state = "playing" /\ isHostOrSolo
     /\ state' # "playing" =>
          powerUpManager'.powerUps = << >> /\ ~powerUpManager'.isSpawning
     /\ state # "playing" =>
          /\ powerUpManager'.powerUps = << >>
          /\ Cardinality(timers') <= Cardinality(timers)
          /\ state' # "placement" =>
               /\ Len(sold') <= Len(sold)
               /\ \A t \in DOMAIN armies \cap DOMAIN armies' :
                    /\ armies'[t].isInvincible => armies[t].isInvincible
                    /\ armies'[t].isReversed => armies[t].isReversed
                    /\ armies'[t].magnetActive => armies[t].magnetActive
                    /\ armies'[t].speedMultiplier # NORMAL_SPEED_X10 =>
                         armies[t].speedMultiplier = armies'[t].speedMultiplier
                    /\ Len(armies'[t].soldiers) <= Len(armies[t].soldiers)]_vars

\* the second match of a solo test is in Placement, after a match in which a
\* power-up was spawned and that has ended: there is no power-up
C28_Witness ==
  /\ state = "placement" /\ isSoloTest
  /\ budget.spawns < MaxSpawns
  /\ budget.conversions = 0
  /\ powerUpManager.exists /\ powerUpManager.powerUps = << >>

\* C29: a peer that is in a party without being its host, and whose game is
\* in Playing, runs no movement, collision, power-up or win-condition logic:
\* no step of it is a tick of Game.updateHost; a step changes the x or z of
\* a soldier only by applying a game_state message, starts a conversion only
\* for a conversion message, changes a roster only when such a conversion
\* completes, spawns and applies no power-up, and sets Ended only for a
\* game_over message.
C29_ClientRunsNoGameLogic ==
  [][(state = "playing" /\ inParty /\ ~isHost) =>
       /\ DOMAIN sold' = DOMAIN sold /\ DOMAIN armies' = DOMAIN armies
       /\ (\E o \in DOMAIN sold : sold'[o].x # sold[o].x \/ sold'[o].z # sold[o].z) =>
            \E data \in ClientSyncMessages : GameStateMessage(data)
       /\ Len(conversions') > Len(conversions) =>
            \E id \in MessageIds : \E ft \in MessageConversions :
              ConversionMessage(id, ft[1], ft[2])
       /\ (\E t \in DOMAIN armies : armies'[t].soldiers # armies[t].soldiers) =>
            CompleteConversion
       /\ powerUpManager'.powerUps = << >> /\ timers' \subseteq timers
       /\ state' = "ended" => \E w \in MessageTypes : GameOverMessage(w)
       /\ ~HostTick]_vars

\* what C30 asks of one getAIInput(type) call in the current state, with
\* rnd the direction that a wander pick would draw
AIPriority(type, rnd) ==
  LET threatType == CASE type = "rock" -> "paper"
                      [] type = "paper" -> "scissors"
                      [] type = "scissors" -> "rock"
      preyType == CASE type = "rock" -> "scissors"
                    [] type = "paper" -> "rock"
                    [] type = "scissors" -> "paper"
      r == getAIInput([armies |-> armies, sold |-> sold,
                       aiUpdateTimers |-> aiUpdateTimers], type, clock, rnd)
      untouched == r.armies = armies /\ r.aiUpdateTimers = aiUpdateTimers
      \* v is the vector (dx, dz) scaled to length 1, in thousandths, up to
      \* the rounding of its components; it is (0, 0) for (0, 0)
      along(v, dx, dz) ==
        /\ (v.x > 0) = (dx > 0) /\ (v.x < 0) = (dx < 0)
        /\ (v.z > 0) = (dz > 0) /\ (v.z < 0) = (dz < 0)
        /\ v.x * dz - v.z * dx <= Dist(dx, 0) + Dist(dz, 0)
        /\ v.z * dx - v.x * dz <= Dist(dx, 0) + Dist(dz, 0)
        /\ (dx # 0 \/ dz # 0) =>
             /\ v.x * v.x + v.z * v.z <= 1000000
             /\ v.x * v.x + v.z * v.z >= 996004
  IN IF armies[type].leader = Null
     THEN r.input = [x |-> 0, z |-> 0] /\ untouched
     ELSE LET p == getPosition(sold, armies[type].leader)
              d(o) == distanceToSq(p, getPosition(sold, o))
              threats == Range(armies[threatType].soldiers)
              prey == Range(armies[preyType].soldiers)
              near == {o \in threats : d(o) < THREAT_RADIUS * THREAT_RADIUS}
          IN /\ near # {} =>
                  /\ \E o \in near :
                       /\ \A q \in threats : d(o) <= d(q)
                       /\ along(r.input, p.x - sold[o].x, p.z - sold[o].z)
                  /\ untouched
             /\ (near = {} /\ prey # {}) =>
                  /\ \E o \in prey :
                       /\ \A q \in prey : d(o) <= d(q)
                       /\ along(r.input, sold[o].x - p.x, sold[o].z - p.z)
                  /\ untouched
             /\ (near = {} /\ prey = {}) =>
                  /\ r.input = r.armies[type].aiWanderDir
                  /\ r.armies[type].aiWanderDir \in {armies[type].aiWanderDir, rnd}
                  /\ [r.armies EXCEPT ![type].aiWanderDir = armies[type].aiWanderDir]
                       = armies

\* C30: getAIInput(type) of an army with a leader flees from the nearest
\* soldier of the faction that beats it when that soldier is within the
\* threat radius, with or without prey; otherwise it goes for the nearest
\* soldier of the faction it beats, if there is one; otherwise it returns
\* the wander direction of the army, and two picks of that direction are
\* more than 2 seconds apart. An army without a leader gets (0, 0).
C30_FleeThenChaseThenWander ==
  /\ [](\A type \in Types : \A rnd \in WanderDirs : AIPriority(type, rnd))
  /\ [][\A type \in Types :
          /\ (/\ type \in DOMAIN aiUpdateTimers
              /\ aiUpdateTimers'[type] # aiUpdateTimers[type]) =>
               aiUpdateTimers'[type] - aiUpdateTimers[type] > WANDER_INTERVAL
          /\ armies'[type].aiWanderDir # armies[type].aiWanderDir =>
               /\ aiUpdateTimers'[type] = clock
               /\ \/ type \notin DOMAIN aiUpdateTimers
                  \/ clock - aiUpdateTimers[type] > WANDER_INTERVAL]_vars

\* Paper, with Rock soldiers to chase, has a Scissors soldier 5 away from
\* its leader and was told to move away from it
C30_Witness ==
  /\ "paper" \in DOMAIN aiInput
  /\ Len(armies["rock"].soldiers) > 0
  /\ armies["paper"].leader # Null
  /\ \E o \in Range(armies["scissors"].soldiers) :
       /\ distanceToSq(getPosition(sold, armies["paper"].leader),
                       getPosition(sold, o)) = 25
       /\ sold[armies["paper"].leader].x = 5 /\ sold[o].x = 0
  /\ aiInput["paper"] = [x |-> 1000, z |-> 0]

\* the soldiers whose position differs between the two states of a step
Moved ==
  {o \in DOMAIN sold \cap DOMAIN sold' :
     sold'[o].x # sold[o].x \/ sold'[o].z # sold[o].z}

\* C31: in Placement a drag moves soldiers of the local faction only, and
\* only to points inside the spawn zone of the local faction and outside the
\* neutral zone; a drag whose target point is in the neutral zone moves no
\* soldier; outside Placement no drag handler moves a soldier.
C31_DragStaysInOwnZone ==
  [][/\ \A tx \in TargetXs : \A tz \in TargetZs :
          MouseMove(tx, tz) =>
            /\ \A o \in Moved :
                 /\ state = "placement"
                 /\ o \in Range(armies[localPlayerType].soldiers)
                 /\ sold[o].type = localPlayerType
                 /\ isInSpawnZone(sold'[o].x, sold'[o].z, localPlayerType)
                 /\ ~isInNeutralZone(sold'[o].x, sold'[o].z)
            /\ (/\ state = "placement"
                /\ \E p \in {dragPoint(localPlayerType, tx, tz)} :
                     isInNeutralZone(p.x, p.z)) => Moved = {}
     /\ (\/ \E hit \in DOMAIN sold \cup {Null} : MouseDown(hit)
         \/ MouseUp) => Moved = {}]_vars

\* the places <<type, index>> at which the rosters list soldier o
Places(o) ==
  UNION {{<<t, i>> : i \in {j \in DOMAIN armies[t].soldiers :
                              armies[t].soldiers[j] = o}} : t \in DOMAIN armies}

\* C32: in a match every soldier is listed by exactly one roster, exactly
\* once, so that the lengths of the rosters add up to the number of soldiers.
C32_OneRosterExactlyOnce ==
  armies # NoArmies =>
    /\ \A o \in DOMAIN sold : Cardinality(Places(o)) = 1
    /\ Len(armies["rock"].soldiers) + Len(armies["paper"].soldiers)
         + Len(armies["scissors"].soldiers) = Cardinality(DOMAIN sold)

\* the number of soldiers that the rosters of the armies list
TotalSoldiers(arm) ==
  Len(arm["rock"].soldiers) + Len(arm["paper"].soldiers)
    + Len(arm["scissors"].soldiers)

\* C33: while a match lasts the number of soldiers over the three armies
\* never goes down, some army has a soldier in every Playing state, and no
\* match has three empty armies.
C33_SoldiersNeverLost ==
  /\ [](/\ state = "playing" => armies # NoArmies
        /\ armies # NoArmies => TotalSoldiers(armies) > 0)
  /\ [][(/\ armies # NoArmies /\ armies' # NoArmies
         /\ ~(state # "placement" /\ state' = "placement")) =>
          TotalSoldiers(armies') >= TotalSoldiers(armies)]_vars

\* a Playing state after a conversion has completed: an army is empty, the
\* army that beat it has its soldier, and no soldier is missing
C33_Witness ==
  /\ state = "playing"
  /\ \E t, u \in Types :
       /\ Len(armies[t].soldiers) = 0
       /\ Len(armies[u].soldiers) > perArmy
  /\ TotalSoldiers(armies) = 3 * perArmy

\* C34: within a match an army whose roster has become empty stays empty:
\* neither a conversion that was pending nor a conversion message adds a
\* soldier to it.
C34_EliminationIsPermanent ==
  [][(/\ armies # NoArmies /\ armies' # NoArmies
      /\ ~(state # "placement" /\ state' = "placement")) =>
       \A t \in Types :
         Len(armies[t].soldiers) = 0 => Len(armies'[t].soldiers) = 0]_vars

\* C35: from Ended until startGame or reset no roster and no soldier type
\* changes, the winner that endGame declared is the only army with soldiers,
\* and the count that the game-over screen shows is the length of its roster.
C35_EndedIsFinal ==
  /\ []((state = "ended" /\ armies # NoArmies) =>
          /\ activeArmies(armies) = {shown.winner}
          /\ shown.count = Len(armies[shown.winner].soldiers))
  /\ [][(state = "ended" /\ state' = "ended") =>
          /\ \A t \in DOMAIN armies : armies'[t].soldiers = armies[t].soldiers
          /\ \A o \in DOMAIN sold : sold'[o].type = sold[o].type]_vars

C37_OneFactionPerPlayer ==
  isHost =>
    \A i, j \in DOMAIN players :
      i # j => players[i][2].id # players[j][2].id

\* C38: whatever the order in which the roster announcements of the host are
\* delivered, once none is on its way the roster of a peer that has joined
\* and has its faction is the roster of the host.
C38_RostersAgreeWhenDelivered ==
  (/\ wire = NoWire
   /\ inParty /\ ~isHost /\ netPlayerType # "none"
   /\ remote.isHost /\ remote.partyId = partyId) =>
    players = remote.players

\* the ids of the soldiers that the roster of faction t lists
RosterIds(arm, s, t) == {s[o].id : o \in Range(arm[t].soldiers)}

\* C39: with the messages delivered in order, whenever host and client are
\* in the battle of a match, no conversion is pending on either and no
\* message is on its way, the client lists for every faction the soldier ids
\* that the host lists, the soldiers of reinforcements included.
C39_ClientRostersFollowHost ==
  (/\ isHost /\ state = "playing" /\ mirror.state = "playing"
   /\ conversions = << >> /\ mirror.conversions = << >>
   /\ wire = NoWire) =>
    \A t \in Types :
      RosterIds(mirror.armies, mirror.sold, t) = RosterIds(armies, sold, t)

EchoArmySize == 1
EchoConversions == 4
EchoEvents == 1

InitEcho ==
  InitWith(EchoArmySize, [conversions |-> EchoConversions, spawns |-> 0,
                          events |-> EchoEvents])

\* a host and its client in matches without power-ups, long enough for a
\* match to end and the next one to start
SpecEcho == InitEcho /\ [][NextMirror]_vars

\* C40: on the host no incoming conversion message starts a conversion: the
\* handling of a conversion message, in particular of the one a client
\* broadcasts again after it applied a conversion of the host, leaves the
\* host's soldiers and its pending conversions as they are, so that army
\* membership changes only through the collisions of the host's own tick.
C40_HostIgnoresConversionMessages ==
  [][(isHost /\ IncomingConversion) => UNCHANGED <<sold, conversions, armies>>]_vars

====
